---- MODULE Spec2Model ----
(***************************************************************************)
(* Model of the Sabi adaptive tutor (src/app.py and its helpers).          *)
(*                                                                         *)
(* app.py is a Streamlit script: every user interaction runs the script    *)
(* once from top to bottom over st.session_state and the SQLite store,     *)
(* and st.rerun() starts one more run without any widget event.  One       *)
(* action of this model is one user interaction: the run that handles it   *)
(* followed by the run that st.rerun() starts.                             *)
(*                                                                         *)
(* Probabilities are integers in hundredths (0.45 is 45).  Strings that    *)
(* the code normalises or searches (concept names, topic texts) are        *)
(* sequences of one-character strings; "a_acute" stands for the letter a   *)
(* with an acute accent.                                                   *)
(***************************************************************************)
EXTENDS Integers, Sequences, FiniteSets, TLC

(***************************************************************************)
(* Bounds of the model.                                                    *)
(***************************************************************************)
\* total number of answers logged in historial_respuestas
MaxAnswers == 3

(***************************************************************************)
(* Generic helpers.                                                        *)
(***************************************************************************)
None == "None"

Max2(a, b) == IF a >= b THEN a ELSE b

Min2(a, b) == IF a <= b THEN a ELSE b

Range(s) == {s[i] : i \in 1..Len(s)}

\* "a or b" of Python on optional concept ids
OrElse(a, b) == IF a # None THEN a ELSE b

\* s[0] if s else None
FirstOrNone(s) == IF s # <<>> THEN s[1] ELSE None

\* s[::-1] of Python
Reverse(s) == [i \in 1..Len(s) |-> s[Len(s) + 1 - i]]

\* s[:n] of Python
Take(s, n) == SubSeq(s, 1, Min2(n, Len(s)))

\* [x for x in s if x in S]
RECURSIVE FilterSeq(_, _)
FilterSeq(s, S) ==
    IF s = <<>> THEN <<>>
    ELSE IF Head(s) \in S THEN <<Head(s)>> \o FilterSeq(Tail(s), S)
         ELSE FilterSeq(Tail(s), S)

\* list.index(x) of Python, 1-based; 0 when absent
RECURSIVE IndexOf(_, _)
IndexOf(s, x) ==
    IF s = <<>> THEN 0
    ELSE IF Head(s) = x THEN 1
         ELSE LET r == IndexOf(Tail(s), x) IN IF r = 0 THEN 0 ELSE r + 1

\* Python's sorted(s, key=...): a stable insertion sort, ascending in
\* key[x]; elements with equal keys keep their order.  A descending sort
\* (reverse=True, which is stable too) is an ascending one on negated keys.
RECURSIVE InsertStable(_, _, _)
InsertStable(x, s, key) ==
    IF s = <<>> THEN <<x>>
    ELSE IF key[x] < key[Head(s)] THEN <<x>> \o s
         ELSE <<Head(s)>> \o InsertStable(x, Tail(s), key)

RECURSIVE SortStable(_, _)
SortStable(s, key) ==
    IF s = <<>> THEN <<>>
    ELSE InsertStable(s[Len(s)], SortStable(SubSeq(s, 1, Len(s) - 1), key), key)

(***************************************************************************)
(* The knowledge graph loaded by load_nodos / load_aristas.  The data      *)
(* files are not part of the sources: this is a small graph with two       *)
(* prerequisites of a lower grade (A, B), the concept that needs them (C)  *)
(* and its successor in the same grade (D).                                *)
(***************************************************************************)
\* key order of the nodos dict (order of the JSON list)
NodoOrder == <<"A", "B", "C", "D">>

NodoIds == Range(NodoOrder)

nodos ==
    [cid \in NodoIds |->
        CASE cid = "A" -> [concepto |-> <<"A", "b">>,      materia |-> "M", anio |-> "g1"]
          [] cid = "B" -> [concepto |-> <<"b", "a">>,      materia |-> "M", anio |-> "g1"]
          [] cid = "C" -> [concepto |-> <<"c", "-", "a">>, materia |-> "M", anio |-> "g2"]
          [] cid = "D" -> [concepto |-> <<"c", "c">>,      materia |-> "M", anio |-> "g2"]]

\* edges {'de': prerequisite, 'a': dependent}, in file order
aristas ==
    << [de |-> "A", a |-> "C"],
       [de |-> "B", a |-> "C"],
       [de |-> "C", a |-> "D"] >>

\* sorted({n['materia'] ...}) and sorted({n['año'] ...})
MUNDOS == <<"M">>

GRADOS == <<"g1", "g2">>

(***************************************************************************)
(* Text utilities (app.py, "Utils: texto/tema").                           *)
(***************************************************************************)
\* code point of a character, for Python's string comparison
CharCode(ch) ==
    CASE ch = " " -> 32
      [] ch = "-" -> 45
      [] ch = "A" -> 65
      [] ch = "B" -> 66
      [] ch = "C" -> 67
      [] ch = "a" -> 97
      [] ch = "b" -> 98
      [] ch = "c" -> 99
      [] ch = "d" -> 100
      [] ch = "z" -> 122
      [] ch = "a_acute" -> 225

\* lower(), NFD + removal of combining marks, and [^a-z0-9 ] -> " ",
\* for one character
NormChar(ch) ==
    CASE ch \in {"A", "a_acute"} -> "a"
      [] ch = "B" -> "b"
      [] ch = "C" -> "c"
      [] ch \in {"a", "b", "c", "d", "z"} -> ch
      [] OTHER -> " "

\* re.sub(r"\s+", " ", s)
RECURSIVE CollapseSpaces(_)
CollapseSpaces(s) ==
    IF Len(s) < 2 THEN s
    ELSE IF s[1] = " " /\ s[2] = " " THEN CollapseSpaces(Tail(s))
         ELSE <<s[1]>> \o CollapseSpaces(Tail(s))

\* str.strip() of an already collapsed string
Strip(s) ==
    LET a == IF s # <<>> /\ s[1] = " " THEN Tail(s) ELSE s
    IN  IF a # <<>> /\ a[Len(a)] = " " THEN SubSeq(a, 1, Len(a) - 1) ELSE a

_norm_txt(s) == Strip(CollapseSpaces([i \in 1..Len(s) |-> NormChar(s[i])]))

\* Python's "t in nombre" on strings
IsSubstring(t, nombre) ==
    \E i \in 0..(Len(nombre) - Len(t)) : SubSeq(nombre, i + 1, i + Len(t)) = t

\* str.split() of a normalised string
RECURSIVE SplitWords(_, _)
SplitWords(s, cur) ==
    IF s = <<>> THEN (IF cur = <<>> THEN <<>> ELSE <<cur>>)
    ELSE IF Head(s) = " "
         THEN (IF cur = <<>> THEN <<>> ELSE <<cur>>) \o SplitWords(Tail(s), <<>>)
         ELSE SplitWords(Tail(s), Append(cur, Head(s)))

\* sum(1 for w in t.split() if w in nombre)
RECURSIVE CountHits(_, _)
CountHits(ws, nombre) ==
    IF ws = <<>> THEN 0
    ELSE (IF IsSubstring(Head(ws), nombre) THEN 1 ELSE 0) + CountHits(Tail(ws), nombre)

\* the candidate filter of match_tema, on one record of nodos
InFilterNode(n, mundo, grado) ==
    /\ (mundo = None \/ n.materia = mundo)
    /\ (grado = None \/ n.anio = grado)

\* the candidate filter shared by match_tema and filtrar_ids
InFilter(cid, mundo, grado) == InFilterNode(nodos[cid], mundo, grado)

\* fault variant of ScoreAgainst: a name containing the whole topic is
\* scored by its words like any other
ScoreAgainst_WordsOnly(t, nombre) ==
    LET hits == CountHits(SplitWords(t, <<>>), nombre)
    IN  IF hits > 0 THEN 10 + hits ELSE 0

\* score of a topic against one normalised name, in tenths: 20 when the
\* topic is contained in the name, else 10 + hits, or 0 when excluded
ScoreAgainst(t, nombre) ==
    LET hits == CountHits(SplitWords(t, <<>>), nombre)
    IN  IF IsSubstring(t, nombre) THEN 20
        ELSE IF hits > 0 THEN 10 + hits ELSE 0

\* the best candidate for the normalised topic t among the concepts nd,
\* iterated in the key order of the dict; scored.sort(reverse=True) is
\* stable, so the first best candidate in that order wins
BestMatchIn(nd, order, mundo, grado, t) ==
    LET score == [c \in DOMAIN nd |-> ScoreAgainst(t, _norm_txt(nd[c].concepto))]
        candidatos == FilterSeq(order, {c \in DOMAIN nd : InFilterNode(nd[c], mundo, grado)})
        scored == FilterSeq(candidatos, {c \in DOMAIN nd : score[c] > 0})
    IN  IF t = <<>> THEN None
        ELSE FirstOrNone(SortStable(scored, [c \in DOMAIN nd |-> 0 - score[c]]))

BestMatch(mundo, grado, t) == BestMatchIn(nodos, NodoOrder, mundo, grado, t)

\* match_tema on any dict of concepts
match_tema_in(nd, order, mundo, grado, tema_texto) ==
    IF tema_texto = <<>> THEN None
    ELSE BestMatchIn(nd, order, mundo, grado, _norm_txt(tema_texto))

\* the concept most similar to the topic text inside mundo/grado, or None
match_tema(mundo, grado, tema_texto) ==
    match_tema_in(nodos, NodoOrder, mundo, grado, tema_texto)


\* tema_text of a decision command: none, "a z" (one word in the name of
\* C), "cc" (the name of D), "zz" (in no name)
TemaTexts == {<<>>, <<"a", " ", "z">>, <<"c", "c">>, <<"z", "z">>}

\* topic detected in the first message: "C-A" (the name of C up to case
\* and punctuation)
InitialTemas == {<<"C", "-", "A">>}

\* Every text the script can hand to match_tema: a concept name (tema
\* after a selection or a decision), the topic of a decision command, the
\* topic detected in the first message, or none; and the result of
\* match_tema for each of them, computed once.
Consultas == {nodos[c].concepto : c \in NodoIds} \cup TemaTexts \cup InitialTemas \cup {<<>>}

MatchTable ==
    [m \in Range(MUNDOS), g \in Range(GRADOS), t \in Consultas |-> match_tema(m, g, t)]

(***************************************************************************)
(* Program constants.                                                      *)
(***************************************************************************)
START_AT_ZERO == TRUE

QUIZ_ACTIVE == "ACTIVE"

QUIZ_WAIT_DECISION == "WAIT_DECISION"

\* default of prefs["quiz_len"]
DefaultQuizLen == 4

\* clamp of the quiz_len command
MinQuizLen == 3

MaxQuizLen == 30

\* propagation decay, and the clamp of a mastery write
DECAY == 15

MinProb == 1

MaxProb == 99

\* thr_weak, thr_ready, maxn of rule_suggestions; thr and k of recomendar_ruta
ThrWeak == 45

ThrReady == 65

MaxN == 4

ThrRuta == 60

KRuta == 5

\* DEFAULTS['prior'] of logica_bkt
BktPrior == 25

\* LIMIT of get_user_history
HistLimit == 10

(***************************************************************************)
(* Dynamic priors (app.py, "Priors dinamicos").                            *)
(***************************************************************************)
\* prerequisites and successors of a concept, in edge order
\* [e[field] for e in edges if e[other] == cid], in the order of the edges
EdgeEnds(edges, cid, other, field) ==
    LET idx == FilterSeq([i \in 1..Len(edges) |-> i],
                         {i \in 1..Len(edges) : edges[i][other] = cid})
    IN  [k \in 1..Len(idx) |-> edges[idx[k]][field]]

get_prereqs(concepto_id, edges) == EdgeEnds(edges, concepto_id, "a", "de")

get_successors(concepto_id, edges) == EdgeEnds(edges, concepto_id, "de", "a")

\* prereqs_map(edges).get(cid, set())
PrereqsIn(edges, cid) == {edges[i].de : i \in {j \in 1..Len(edges) : edges[j].a = cid}}

_grado_to_num(grado) ==
    CASE grado = "g1" -> 1
      [] grado = "g2" -> 2
      [] OTHER -> 3

\* The dict depth of compute_depths, as a function on the keys of nodos and
\* the ids the edges name: a depth, -1 for None, -2 for an id that is not
\* a key of the dict (depth[p] raises KeyError), and -3 at the concept
\* whose evaluation raised the KeyError that ended the call.
EdgeIds(edges) ==
    {edges[i].de : i \in 1..Len(edges)} \cup {edges[i].a : i \in 1..Len(edges)}

DepthRaised(depth) == \E c \in DOMAIN depth : depth[c] = -3

\* fault variant of DepthPass: one more than the shallowest prerequisite
RECURSIVE DepthPass_Min(_, _, _, _)
DepthPass_Min(edges, depth, order, miss_first) ==
    IF order = <<>> \/ DepthRaised(depth) THEN depth
    ELSE LET cid == Head(order)
             ps == PrereqsIn(edges, cid)
             nokey == \E p \in ps : depth[p] = -2
             none == \E p \in ps : depth[p] = -1
             d == IF ps = {} THEN 0
                  ELSE 1 + (CHOOSE m \in {depth[p] : p \in ps} :
                                \A p \in ps : depth[p] >= m)
         IN  IF depth[cid] # -1 THEN DepthPass_Min(edges, depth, Tail(order), miss_first)
             ELSE IF nokey /\ (miss_first \/ ~none) THEN [depth EXCEPT ![cid] = -3]
             ELSE IF none THEN DepthPass_Min(edges, depth, Tail(order), miss_first)
             ELSE DepthPass_Min(edges, [depth EXCEPT ![cid] = d], Tail(order), miss_first)

\* one pass of the while loop of compute_depths over the nodes in key
\* order, updating depth in place.  all(depth[p] is not None for p in
\* parents[cid]) visits the set parents[cid] in its iteration order and
\* stops at the first None: it raises KeyError when it reaches an id
\* without entry, which it does when no prerequisite is None or when
\* the set yields that id before them (miss_first).
RECURSIVE DepthPass(_, _, _, _)
DepthPass(edges, depth, order, miss_first) ==
    IF order = <<>> \/ DepthRaised(depth) THEN depth
    ELSE LET cid == Head(order)
             ps == PrereqsIn(edges, cid)
             nokey == \E p \in ps : depth[p] = -2
             none == \E p \in ps : depth[p] = -1
             d == IF ps = {} THEN 0
                  ELSE 1 + (CHOOSE m \in {depth[p] : p \in ps} :
                                \A p \in ps : depth[p] <= m)
         IN  IF depth[cid] # -1 THEN DepthPass(edges, depth, Tail(order), miss_first)
             ELSE IF nokey /\ (miss_first \/ ~none) THEN [depth EXCEPT ![cid] = -3]
             ELSE IF none THEN DepthPass(edges, depth, Tail(order), miss_first)
             ELSE DepthPass(edges, [depth EXCEPT ![cid] = d], Tail(order), miss_first)

\* the while loop: passes until one changes nothing
RECURSIVE DepthLoop(_, _, _, _)
DepthLoop(edges, depth, order, miss_first) ==
    LET next == DepthPass(edges, depth, order, miss_first)
    IN  IF next = depth THEN depth ELSE DepthLoop(edges, next, order, miss_first)

\* fault variant of DepthDefaults: what is left None is given depth 0
DepthDefaults_Zero(fix) == [cid \in DOMAIN fix |-> IF fix[cid] = -1 THEN 0 ELSE fix[cid]]

\* the number of passes the while loop makes, the last one included
RECURSIVE DepthPasses(_, _, _, _)
DepthPasses(edges, depth, order, miss_first) ==
    LET next == DepthPass(edges, depth, order, miss_first)
    IN  IF next = depth THEN 1 ELSE 1 + DepthPasses(edges, next, order, miss_first)

\* what is left None is given depth 2
DepthDefaults(fix) == [cid \in DOMAIN fix |-> IF fix[cid] = -1 THEN 2 ELSE fix[cid]]

\* parents holds every id the edges name; the ids without prerequisite
\* are the roots and get the entry 0, keys of nodos or not; the other
\* keys of nodos start as None
DepthStart(order, edges) ==
    [cid \in Range(order) \cup EdgeIds(edges) |->
        IF PrereqsIn(edges, cid) = {} THEN 0
        ELSE IF cid \in Range(order) THEN -1 ELSE -2]

\* compute_depths of the graph with the nodes in key order and the edges
DepthsOfAny(order, edges, miss_first) ==
    DepthDefaults(DepthLoop(edges, DepthStart(order, edges), order, miss_first))

\* on edges between keys of nodos no lookup can raise
DepthsOf(order, edges) == DepthsOfAny(order, edges, FALSE)

compute_depths == DepthsOf(NodoOrder, aristas)

\* base by depth: 0.60, 0.50, 0.40, or 0.30 from depth 3 on
PriorBase(d) == IF d = 0 THEN 60 ELSE IF d = 1 THEN 50 ELSE IF d = 2 THEN 40 ELSE 30

\* the grade adjustment and the clamp to [0.05, 0.85]
PriorAdjusted(base, delta) ==
    Max2(5, Min2(85, IF delta > 0 THEN base + 5 * Min2(delta, 3)
                     ELSE IF delta < 0 THEN base - 10 * Min2(0 - delta, 2)
                     ELSE base))

prior_inicial_concepto(concepto_id, grado_usuario) ==
    PriorAdjusted(PriorBase(compute_depths[concepto_id]),
                  _grado_to_num(grado_usuario) - _grado_to_num(nodos[concepto_id].anio))

(***************************************************************************)
(* The store: table dominio_usuario of the learner, as a function from     *)
(* concept id to <<>> (no row) or <<[prob, intentos]>>, and the log        *)
(* historial_respuestas of the learner.  The log is only ever read per     *)
(* concept in id order, so it is kept as one sequence per concept, in      *)
(* insertion order, of the column correcta.                                *)
(***************************************************************************)
\* the prior written for a new or never-attempted row
PriorDe(cid, grado_usuario) ==
    IF START_AT_ZERO THEN 0 ELSE prior_inicial_concepto(cid, grado_usuario)

\* the table after get_user_profile: rows are created lazily with the
\* prior, and a never-attempted row holding the legacy 0.25 is reset to it
ProfileRows(dominio, grado_usuario) ==
    [cid \in NodoIds |->
        IF \/ dominio[cid] = <<>>
           \/ dominio[cid][1].intentos = 0 /\ dominio[cid][1].prob = 25
        THEN <<[prob |-> PriorDe(cid, grado_usuario), intentos |-> 0]>>
        ELSE dominio[cid]]

\* the dict returned by get_user_profile (every concept has a row by then)
get_user_profile(dominio, grado_usuario) ==
    [cid \in NodoIds |-> ProfileRows(dominio, grado_usuario)[cid][1].prob]

\* UPDATE dominio_usuario SET prob_maestria=p; no row, no effect
update_user_prob(dominio, concepto_id, p) ==
    IF concepto_id \in NodoIds /\ dominio[concepto_id] # <<>>
    THEN [dominio EXCEPT ![concepto_id] = <<[@[1] EXCEPT !.prob = p]>>]
    ELSE dominio

\* the last HistLimit answers of the concept, newest first
get_user_history(historial, concepto_id) ==
    LET rows == historial[concepto_id]
        n == Len(rows)
        desc == [k \in 1..n |-> rows[n + 1 - k]]
    IN  Take(desc, HistLimit)

\* INSERT INTO historial_respuestas
LogRow(historial, concepto_id, correcta) ==
    [historial EXCEPT ![concepto_id] = Append(@, IF correcta THEN 1 ELSE 0)]

\* the observations handed to obtener_nueva_probabilidad: the rows that
\* get_user_history returns, turned round (app.py 783-785)
eventos_bkt(historial, concepto_id) == Reverse(get_user_history(historial, concepto_id))

\* number of rows of historial_respuestas
RECURSIVE LogSize(_, _)
LogSize(historial, order) ==
    IF order = <<>> THEN 0
    ELSE Len(historial[Head(order)]) + LogSize(historial, Tail(order))

\* fault variant of IncIntentos: a concept with attempts is not counted
\* again
IncIntentos_Once(dominio, concepto_id) ==
    IF concepto_id \in NodoIds /\ dominio[concepto_id] # <<>>
    THEN [dominio EXCEPT ![concepto_id] = <<[@[1] EXCEPT !.intentos = 1]>>]
    ELSE dominio

\* UPDATE dominio_usuario SET intentos=intentos+1
IncIntentos(dominio, concepto_id) ==
    IF concepto_id \in NodoIds /\ dominio[concepto_id] # <<>>
    THEN [dominio EXCEPT ![concepto_id] = <<[@[1] EXCEPT !.intentos = @ + 1]>>]
    ELSE dominio

\* every direct prerequisite of the failed concept is written
\* max(0.01, perfil[p] - DECAY), perfil being the caller's snapshot
RECURSIVE PropagateOver(_, _, _)
PropagateOver(dominio, pres, perfil) ==
    IF pres = <<>> THEN dominio
    ELSE PropagateOver(update_user_prob(dominio, Head(pres),
                                        Max2(MinProb, perfil[Head(pres)] - DECAY)),
                       Tail(pres), perfil)

\* fault variant of apply_heuristic_propagation: only the first
\* prerequisite is lowered
apply_heuristic_propagation_FirstOnly(dominio, concepto_fallado_id, perfil) ==
    PropagateOver(dominio, Take(get_prereqs(concepto_fallado_id, aristas), 1), perfil)

apply_heuristic_propagation(dominio, concepto_fallado_id, perfil) ==
    PropagateOver(dominio, get_prereqs(concepto_fallado_id, aristas), perfil)

(***************************************************************************)
(* A Python float: a finite value v in hundredths, or nf naming a          *)
(* non-finite value ("nan", "inf", "-inf"; v is then not used).            *)
(***************************************************************************)
Fl(v) == [v |-> v, nf |-> ""]

NonFinite(nf) == [v |-> 0, nf |-> nf]

\* a < b on floats: every comparison with nan is false
PyLess(a, b) ==
    IF a.nf = "nan" \/ b.nf = "nan" THEN FALSE
    ELSE IF a.nf = "inf" \/ b.nf = "-inf" THEN FALSE
    ELSE IF a.nf = "-inf" \/ b.nf = "inf" THEN TRUE
    ELSE a.v < b.v

\* min(a, b) and max(a, b) of Python: the first argument unless the second
\* is strictly smaller (larger)
PyMin(a, b) == IF PyLess(b, a) THEN b ELSE a

PyMax(a, b) == IF PyLess(a, b) THEN b ELSE a

\* fault variant of ClampProb: the floor is missing
ClampProb_NoFloor(v) == PyMin(Fl(MaxProb), v).v

\* fault variant of ClampProb: the ceiling is missing
ClampProb_NoCeiling(v) == PyMax(Fl(MinProb), v).v

\* nueva = max(0.01, min(0.99, float(bkt_val))), in hundredths
ClampProb(v) == PyMax(Fl(MinProb), PyMin(Fl(MaxProb), v)).v


(***************************************************************************)
(* Recommender and items (app.py, "Recomendador / Items").                 *)
(***************************************************************************)
filtrar_ids(mundo, grado) == {cid \in NodoIds : InFilter(cid, mundo, grado)}

\* perfil.get(x, 0.0)
PerfilGet(perfil, x) == IF x \in DOMAIN perfil THEN perfil[x] ELSE 0

\* fault variant of recomendar_ruta: the prerequisites are not looked at
recomendar_ruta_NoGate(perfil, ids, edges, k, thr) ==
    Take(SortStable(ids, [c \in Range(ids) |-> PerfilGet(perfil, c)]), k)

\* fault variant of recomendar_ruta: the most mastered come first
recomendar_ruta_Descending(perfil, ids, edges, k, thr) ==
    LET ready == {c \in Range(ids) :
                     \A p \in PrereqsIn(edges, c) : PerfilGet(perfil, p) >= thr}
    IN  Take(SortStable(FilterSeq(ids, ready),
                        [c \in Range(ids) |-> 0 - PerfilGet(perfil, c)]), k)

\* ids is the candidate set in its iteration order
recomendar_ruta(perfil, ids, edges, k, thr) ==
    LET ready == {c \in Range(ids) :
                     \A p \in PrereqsIn(edges, c) : PerfilGet(perfil, p) >= thr}
        candidatos == FilterSeq(ids, ready)
        key == [c \in Range(ids) |-> PerfilGet(perfil, c)]
    IN  Take(SortStable(candidatos, key), k)

\* fault variant of WeakPrereqs: the weak prerequisites are not sorted
WeakPrereqs_Unsorted(concepto_id, perfil, edges, order) ==
    LET pres == FilterSeq(order, PrereqsIn(edges, concepto_id))
    IN  Take(FilterSeq(pres, {p \in Range(pres) : PerfilGet(perfil, p) < ThrWeak}), MaxN)

\* weak prerequisites of the concept, weakest first; order is the
\* iteration order of the prerequisite set
WeakPrereqs(concepto_id, perfil, edges, order) ==
    LET pres == FilterSeq(order, PrereqsIn(edges, concepto_id))
        weak_pr == FilterSeq(pres, {p \in Range(pres) : PerfilGet(perfil, p) < ThrWeak})
        key == [p \in Range(pres) |-> PerfilGet(perfil, p)]
    IN  Take(SortStable(weak_pr, key), MaxN)

\* fault variant of AdvanceReady: one ready prerequisite is enough
AdvanceReady_AnyPrereq(concepto_id, perfil, edges) ==
    LET succ == get_successors(concepto_id, edges)
        ok == {x \in Range(succ) :
                  \E y \in PrereqsIn(edges, x) : PerfilGet(perfil, y) >= ThrReady}
    IN  Take(SortStable(FilterSeq(succ, ok),
                        [x \in Range(succ) |-> 0 - PerfilGet(perfil, x)]), MaxN)

\* successors whose prerequisites are all ready, most mastered first
AdvanceReady(concepto_id, perfil, edges) ==
    LET succ == get_successors(concepto_id, edges)
        ok == {x \in Range(succ) :
                  /\ PrereqsIn(edges, x) # {}
                  /\ \A y \in PrereqsIn(edges, x) : PerfilGet(perfil, y) >= ThrReady}
        advance == FilterSeq(succ, ok)
        key == [x \in Range(succ) |-> 0 - PerfilGet(perfil, x)]
    IN  Take(SortStable(advance, key), MaxN)

rule_suggestions(concepto_id, perfil, edges, order) ==
    [weak |-> WeakPrereqs(concepto_id, perfil, edges, order),
     advance |-> AdvanceReady(concepto_id, perfil, edges)]

\* The item bank file: items are only ever appended, each with a fresh
\* item_id, and only ever read per concept, so the bank is the number of
\* items it holds of each concept and the item_id of the i-th item of a
\* concept is <<concept, i>>.
BankItem(cid, i) == [item_id |-> <<cid, i>>, concepto_id |-> cid]

\* bank items of the concept not yet used, in bank order
Candidates(banco, cid, evitar_ids) ==
    FilterSeq([i \in 1..banco[cid] |-> i],
              {i \in 1..banco[cid] : <<cid, i>> \notin Range(evitar_ids)})

\* get_question: a random unused bank item when there is one (pick is the
\* draw of random.choice), else an item generated for the concept and
\* appended to the bank.  Returns the item and the bank.
PickOrGenerate(banco, concepto_id, cand, pick) ==
    IF cand # <<>>
    THEN [item |-> BankItem(concepto_id, cand[1 + (pick % Len(cand))]), banco |-> banco]
    ELSE [item |-> BankItem(concepto_id, banco[concepto_id] + 1),
          banco |-> [banco EXCEPT ![concepto_id] = @ + 1]]

get_question(banco, concepto_id, evitar_ids, pick) ==
    PickOrGenerate(banco, concepto_id, Candidates(banco, concepto_id, evitar_ids), pick)

(***************************************************************************)
(* logica_bkt.obtener_nueva_probabilidad: the prior for an empty history,  *)
(* else the last prediction of the pyBKT model fitted on the history; an   *)
(* exception of the library yields the prior again.  The library is not    *)
(* part of the sources: its outcome is the input pybkt, a prediction in    *)
(* hundredths or an exception.                                             *)
(***************************************************************************)
obtener_nueva_probabilidad(historial_respuestas, pybkt) ==
    IF historial_respuestas = <<>> THEN Fl(BktPrior)
    ELSE IF pybkt.raises THEN Fl(BktPrior)
    ELSE pybkt.pred

(***************************************************************************)
(* The try block of the submit handler (app.py 786-796).  The call's       *)
(* result is <<value>>, None is <<>>.  obtener_nueva_probabilidad returns  *)
(* a float on each of its paths (logica_bkt.py 39, 68, 73) and catches the *)
(* library's exceptions itself (line 70), so the handler of app.py 793 has *)
(* no exception to catch.                                                  *)
(***************************************************************************)
bkt_val(perfil, concepto_id, ok, eventos, pybkt) ==
    LET r == <<obtener_nueva_probabilidad(eventos, pybkt)>>
    IN  IF r = <<>>
        THEN Fl(PerfilGet(perfil, concepto_id) + (IF ok THEN 5 ELSE -5))
        ELSE r[1]


(***************************************************************************)
(* State.  st.session_state, the SQLite tables, the item bank file and     *)
(* the state Streamlit keeps for the topic selectbox.  An optional value   *)
(* is <<>> (None) or a one-element sequence; an optional id is None.       *)
(***************************************************************************)
VARIABLES
    ctx,            \* session_state.ctx: <<>> or <<[objetivo, mundo, grado]>>
    sid,            \* session_state.sid: None or the id of the session row
    quiz_len,       \* session_state.prefs["quiz_len"]
    aciertos,       \* session_state.aciertos
    override_next,  \* session_state.override_next
    quiz_count,     \* session_state.quiz_count
    usados_items,   \* session_state.usados_items
    tema,           \* session_state.tema (<<>> is None or "")
    current_item,   \* session_state.current_item: <<>> or <<item>>
    quiz_state,     \* session_state.quiz_state
    decision_ctx,   \* session_state.decision_ctx: <<>> or <<[concepto_id, weak, advance, sug]>>
    dominio,        \* table dominio_usuario of the learner
    historial,      \* table historial_respuestas
    sesiones,       \* newest row of table sesiones: <<>> or <<[ctx, tema]>>
    banco,          \* banco_items.json
    selbox,         \* the selectbox widget: <<>> or <<[labels, index, value]>>
    concepto_id,    \* concepto_id of the last run of the script (None: no panel)
    last,           \* the last interaction and its outcome
    inp,            \* arguments of a function applied on its own: <<>> or <<record>>
    out,            \* what the function returned: <<>> or <<value>>
    procs           \* processes sharing the store: <<>> or <<[start, of]>>

vars == <<ctx, sid, quiz_len, aciertos, override_next, quiz_count, usados_items,
          tema, current_item, quiz_state, decision_ctx, dominio, historial,
          sesiones, banco, selbox, concepto_id, last, inp, out, procs>>

\* the session and the tables
svars == <<ctx, sid, quiz_len, aciertos, override_next, quiz_count, usados_items,
           tema, current_item, quiz_state, decision_ctx, dominio, historial,
           sesiones, banco, selbox, concepto_id, last>>

NoLast == [accion |-> None, tema_text |-> <<>>, signal |-> None, resolved |-> None]

\* the whole state as one record, so that the script is a function on it
World ==
    [ctx |-> ctx, sid |-> sid, quiz_len |-> quiz_len, aciertos |-> aciertos,
     override_next |-> override_next, quiz_count |-> quiz_count,
     usados_items |-> usados_items, tema |-> tema, current_item |-> current_item,
     quiz_state |-> quiz_state, decision_ctx |-> decision_ctx, dominio |-> dominio,
     historial |-> historial, sesiones |-> sesiones, banco |-> banco,
     selbox |-> selbox, concepto_id |-> concepto_id,
     rerun |-> FALSE, signal |-> None, resolved |-> None, draws |-> 1]

\* the wiring of session defaults (app.py 442-455) and empty tables
FreshSession ==
    /\ ctx = <<>>
    /\ sid = None
    /\ quiz_len = DefaultQuizLen
    /\ aciertos = 0
    /\ override_next = None
    /\ quiz_count = 0
    /\ usados_items = <<>>
    /\ tema = <<>>
    /\ current_item = <<>>
    /\ quiz_state = QUIZ_ACTIVE
    /\ decision_ctx = <<>>
    /\ historial = [cid \in NodoIds |-> <<>>]
    /\ sesiones = <<>>
    /\ banco = [cid \in NodoIds |-> 0]
    /\ selbox = <<>>
    /\ concepto_id = None
    /\ last = NoLast

Fresh ==
    /\ FreshSession
    /\ dominio = [cid \in NodoIds |-> <<>>]

Init ==
    /\ Fresh
    /\ inp = <<>>
    /\ out = <<>>
    /\ procs = <<>>

(***************************************************************************)
(* Helpers of the script (app.py, "Helpers").                              *)
(***************************************************************************)
\* draws is the number of alternatives random.choice had in get_question
WithItem(w, q, n) ==
    [w EXCEPT !.current_item = <<q.item>>, !.banco = q.banco, !.draws = Max2(@, n)]

_cargar_siguiente_item(w, cid, pick) ==
    WithItem(w, get_question(w.banco, cid, w.usados_items, pick),
             Len(Candidates(w.banco, cid, w.usados_items)))

\* fixes the next concept and reactivates the quiz; ends in st.rerun()
\* fault variant of _set_next_target: the quiz is not reactivated
_set_next_target_KeepsGate(w, cid_target) ==
    IF cid_target = None THEN w
    ELSE [w EXCEPT !.override_next = cid_target,
                   !.tema = nodos[cid_target].concepto,
                   !.current_item = <<>>,
                   !.usados_items = <<>>,
                   !.quiz_count = 0,
                   !.aciertos = 0,
                   !.decision_ctx = <<>>,
                   !.signal = "Resolved",
                   !.resolved = cid_target,
                   !.rerun = TRUE]

_set_next_target(w, cid_target) ==
    IF cid_target = None THEN w
    ELSE [w EXCEPT !.override_next = cid_target,
                   !.tema = nodos[cid_target].concepto,
                   !.current_item = <<>>,
                   !.usados_items = <<>>,
                   !.quiz_count = 0,
                   !.aciertos = 0,
                   !.quiz_state = QUIZ_ACTIVE,
                   !.decision_ctx = <<>>,
                   !.signal = "Resolved",
                   !.resolved = cid_target,
                   !.rerun = TRUE]

\* sc.get("id") of the stored suggestion: only a dict payload whose
\* siguiente_concepto is a dict carries an id
SuggId(sug) == IF sug.kind = "dict_sc" THEN sug.id ELSE None

\* fault variant of NoTarget: the failed decision reopens the quiz
NoTarget_LeavesGate(w) ==
    [w EXCEPT !.signal = "NoTargetFound",
              !.quiz_state = QUIZ_ACTIVE,
              !.decision_ctx = <<>>]

\* no target: a guidance message, nothing else
NoTarget(w) == [w EXCEPT !.signal = "NoTargetFound"]

\* fault variant of ResolveReintentar: a weak prerequisite is preferred to
\* the concept of the bout
ResolveReintentar_WeakFirst(w, dc) ==
    _set_next_target(w, IF dc.weak # <<>> THEN dc.weak[1] ELSE dc.concepto_id)

\* reintentar: the concept of the bout that ended
ResolveReintentar(w, dc) == _set_next_target(w, dc.concepto_id)

\* the target found, or none
SetOrNoTarget(w, target) ==
    IF target = None THEN NoTarget(w) ELSE _set_next_target(w, target)

\* fault variant of ResolveRepasar: the weak list is preferred to the topic
ResolveRepasar_WeakFirst(w, dc, tema_cid) ==
    SetOrNoTarget(w, OrElse(FirstOrNone(dc.weak), tema_cid))

\* repasar: tema_cid or (weak[0] if weak else None)
ResolveRepasar(w, dc, tema_cid) ==
    SetOrNoTarget(w, OrElse(tema_cid, FirstOrNone(dc.weak)))

\* sugg_id if sugg_id in nodos else None
SuggInGraph(sugg_id) == IF sugg_id \in NodoIds THEN sugg_id ELSE None

\* avanzar: tema_cid or (sugg_id if sugg_id in nodos else None) or
\* (advance[0] if advance else None); "sugg_id in nodos" is evaluated when
\* there is no topic match and raises TypeError for an unhashable id
ResolveAvanzar(w, dc, tema_cid) ==
    IF tema_cid = None /\ SuggId(dc.sug) = "unhashable"
    THEN [w EXCEPT !.signal = "TypeError"]
    ELSE SetOrNoTarget(w, OrElse(tema_cid,
                                 OrElse(SuggInGraph(SuggId(dc.sug)), FirstOrNone(dc.advance))))

\* the branch of the decision's action
Resolve(w, dc, accion, tema_cid) ==
    CASE accion = "reintentar" -> ResolveReintentar(w, dc)
      [] accion = "repasar" -> ResolveRepasar(w, dc, tema_cid)
      [] accion = "avanzar" -> ResolveAvanzar(w, dc, tema_cid)

\* processes the learner's decision (reintentar, repasar [tema],
\* avanzar [tema]) given in the chat
_aplicar_decision(w, cmd) ==
    IF w.quiz_state # QUIZ_WAIT_DECISION THEN w
    ELSE Resolve(w, w.decision_ctx[1], cmd.accion,
                 IF cmd.tema_text # <<>>
                 THEN MatchTable[w.ctx[1].mundo, w.ctx[1].grado, cmd.tema_text]
                 ELSE None)

(***************************************************************************)
(* Left panel: one chat message (app.py 549-638).  cmd is the result of    *)
(* interpretar_comando and intent that of interpretar_intencion_usuario    *)
(* with the topic detected in the message.  Every branch ends in           *)
(* st.rerun() unless an exception ends the run.                            *)
(***************************************************************************)
\* fault variant of ResetObjetivo: the decision context survives the reset
ResetObjetivo_KeepsDecision(w) ==
    [w EXCEPT !.ctx = <<>>,
              !.current_item = <<>>,
              !.usados_items = <<>>,
              !.quiz_count = 0,
              !.aciertos = 0,
              !.quiz_state = QUIZ_ACTIVE]

\* the reset shared by the cambiar_tema command and the "Cambiar objetivo"
\* button
ResetObjetivo(w) ==
    [w EXCEPT !.ctx = <<>>,
              !.current_item = <<>>,
              !.usados_items = <<>>,
              !.quiz_count = 0,
              !.aciertos = 0,
              !.quiz_state = QUIZ_ACTIVE,
              !.decision_ctx = <<>>]

\* grade of the new session: the one detected, else 5to de secundaria
\* for pre_u when it exists, else the first grade
GradoDe(intent) ==
    IF intent.grado # None THEN intent.grado
    ELSE IF intent.objetivo = "pre_u" /\ "5to de secundaria" \in Range(GRADOS)
         THEN "5to de secundaria" ELSE GRADOS[1]

\* the session is started with the detected context and topic
StartWith(w, newctx, tema_texto) ==
    [w EXCEPT !.tema = tema_texto,
              !.override_next = OrElse(MatchTable[newctx.mundo, newctx.grado, tema_texto],
                                       w.override_next),
              !.ctx = <<newctx>>,
              !.sid = "sid",
              !.sesiones = <<[ctx |-> newctx, tema |-> tema_texto]>>,
              !.rerun = TRUE]

\* first message of a session: objective, world and grade are needed
StartFromIntent(w, intent) ==
    IF intent.objetivo = None \/ intent.mundo = None THEN [w EXCEPT !.rerun = TRUE]
    ELSE StartWith(w, [objetivo |-> intent.objetivo, mundo |-> intent.mundo,
                       grado |-> GradoDe(intent)],
                   intent.tema)

\* the run ends in st.rerun() unless the decision raised
DecisionDone(w) == IF w.signal = "TypeError" THEN w ELSE [w EXCEPT !.rerun = TRUE]

\* fault variant of quiz_len_cmd: the ceiling is missing
quiz_len_cmd_NoCeiling(n) == Max2(MinQuizLen, n)

\* prefs["quiz_len"] = max(3, min(30, cmd["n"]))
quiz_len_cmd(n) == Max2(MinQuizLen, Min2(MaxQuizLen, n))

ChatPhase(w, cmd, intent) ==
    IF cmd.cmd = "set_nombre" THEN [w EXCEPT !.rerun = TRUE]
    ELSE IF w.ctx = <<>> THEN StartFromIntent(w, intent)
    ELSE
    CASE cmd.cmd = "quiz_len" ->
            [w EXCEPT !.quiz_len = quiz_len_cmd(cmd.n),
                      !.rerun = TRUE]
      [] cmd.cmd = "retomar" ->
            IF w.sesiones = <<>> THEN [w EXCEPT !.rerun = TRUE]
            ELSE [w EXCEPT !.sid = "sid",
                           !.ctx = <<w.sesiones[1].ctx>>,
                           !.tema = w.sesiones[1].tema,
                           !.rerun = TRUE]
      [] cmd.cmd = "cambiar_tema" -> [ResetObjetivo(w) EXCEPT !.rerun = TRUE]
      [] cmd.cmd = "decision" ->
            DecisionDone(_aplicar_decision(
                [w EXCEPT !.dominio = ProfileRows(w.dominio, w.ctx[1].grado)], cmd))
      [] OTHER -> [w EXCEPT !.rerun = TRUE]

(***************************************************************************)
(* Right panel (app.py 643-868).                                           *)
(***************************************************************************)
\* Python's < on strings: by code point, a proper prefix sorts first
RECURSIVE StrLess(_, _)
StrLess(x, y) ==
    IF y = <<>> THEN FALSE
    ELSE IF x = <<>> THEN TRUE
    ELSE IF CharCode(Head(x)) # CharCode(Head(y)) THEN CharCode(Head(x)) < CharCode(Head(y))
    ELSE StrLess(Tail(x), Tail(y))

\* the concepts of the filter sorted by concept name (label_pairs), for
\* any dict of concepts iterated in the given order
LabelCidsIn(nd, order, mundo, grado) ==
    LET ids == {c \in DOMAIN nd : InFilterNode(nd[c], mundo, grado)}
        rank == [c \in ids |->
                    Cardinality({d \in ids : StrLess(nd[d].concepto, nd[c].concepto)})]
    IN  SortStable(FilterSeq(order, ids), rank)

LabelCids(mundo, grado) == LabelCidsIn(nodos, NodoOrder, mundo, grado)

\* label_pairs of every filter a session can have, computed once
LabelTable == [m \in Range(MUNDOS), g \in Range(GRADOS) |-> LabelCids(m, g)]

\* label_to_cid[label]: the last pair of a label wins
LabelToCidIn(nd, cids, label) ==
    LET hits == {i \in 1..Len(cids) : nd[cids[i]].concepto = label}
    IN  cids[CHOOSE i \in hits : \A j \in hits : j <= i]

LabelToCid(cids, label) == LabelToCidIn(nodos, cids, label)

\* the value of st.selectbox(labels, index=default_idx).  A widget without
\* key is identified by its arguments: with the same labels and index as
\* in the previous run it keeps its value (or takes the label the learner
\* has just picked), otherwise it is a new widget showing its default.
SelectboxValue(sb, labels, default_idx, ev) ==
    IF sb # <<>> /\ sb[1].labels = labels /\ sb[1].index = default_idx
    THEN IF ev.type = "select" /\ ev.label \in Range(labels) THEN ev.label
         ELSE sb[1].value
    ELSE labels[default_idx]

\* The accepted answer is recorded (app.py 769-804): propagation after a
\* wrong answer, the log row, the BKT estimate from the history, the clamp
\* and the write, the used item and the count.  perfil is the snapshot
\* read at the start of the run.
\* fault variant of AnswerRecorded: the prerequisites are lowered after a
\* correct answer as well
AnswerRecorded_PropagatesAlways(w, perfil, cid, item, ok, ev) ==
    LET d1 == apply_heuristic_propagation(w.dominio, cid, perfil)
        h2 == LogRow(w.historial, cid, ok)
        nueva == ClampProb(bkt_val(perfil, cid, ok, eventos_bkt(h2, cid), ev.pybkt))
    IN  [w EXCEPT !.aciertos = IF ok THEN @ + 1 ELSE @,
                  !.dominio = update_user_prob(IncIntentos(d1, cid), cid, nueva),
                  !.historial = h2,
                  !.usados_items = Append(@, item.item_id),
                  !.quiz_count = @ + 1,
                  !.signal = "Accepted"]

AnswerRecorded(w, perfil, cid, item, ok, ev) ==
    LET d1 == IF ok THEN w.dominio
              ELSE apply_heuristic_propagation(w.dominio, cid, perfil)
        h2 == LogRow(w.historial, cid, ok)
        nueva == ClampProb(bkt_val(perfil, cid, ok, eventos_bkt(h2, cid), ev.pybkt))
    IN  [w EXCEPT !.aciertos = IF ok THEN @ + 1 ELSE @,
                  !.dominio = update_user_prob(IncIntentos(d1, cid), cid, nueva),
                  !.historial = h2,
                  !.usados_items = Append(@, item.item_id),
                  !.quiz_count = @ + 1,
                  !.signal = "Accepted"]

\* the decision context stored at the end of a bout
DecisionCtx(cid, rs, sug) ==
    [concepto_id |-> cid, weak |-> rs.weak, advance |-> rs.advance, sug |-> sug]

\* end of the bout, or the next item of the same concept (app.py 811-852)
BoutCheck(w, perfil, cid, ev) ==
    IF w.quiz_count >= w.quiz_len
    THEN \* sc.get(...) on a siguiente_concepto that is not a dict raises
         IF ev.sug.kind = "dict_sc_str" THEN [w EXCEPT !.signal = "AttributeError"]
         ELSE [w EXCEPT !.decision_ctx =
                            <<DecisionCtx(cid, rule_suggestions(cid, perfil, aristas, ev.order),
                                          ev.sug)>>,
                        !.quiz_state = QUIZ_WAIT_DECISION,
                        !.quiz_count = 0,
                        !.aciertos = 0,
                        !.usados_items = <<>>,
                        !.current_item = <<>>,
                        !.rerun = TRUE]
    ELSE [w EXCEPT !.override_next = cid,
                   !.current_item = <<>>,
                   !.rerun = TRUE]

\* the submit handler when the database answers (app.py 765-852)
SubmitAnswer(w, perfil, cid, item, ok, ev) ==
    BoutCheck(AnswerRecorded(w, perfil, cid, item, ok, ev), perfil, cid, ev)

\* The submit handler when its n-th writing database call raises
\* (app.py 769-799).  The calls are the update_user_prob of each
\* prerequisite after a wrong answer, log_respuesta, and the
\* update_user_prob of the concept; each commits on its own and the
\* exception ends the run.  aciertos is incremented before the first call.
SubmitFails(w, perfil, cid, ok, pres, n) ==
    [w EXCEPT !.aciertos = IF ok THEN @ + 1 ELSE @,
              !.dominio =
                  IF n > Len(pres) + 1
                  THEN IncIntentos(PropagateOver(@, pres, perfil), cid)
                  ELSE PropagateOver(@, Take(pres, n - 1), perfil),
              !.historial = IF n > Len(pres) + 1 THEN LogRow(@, cid, ok) ELSE @,
              !.signal = "PersistenceError"]

\* the number of writing database calls of the handler
SubmitCalls(cid, ok) == IF ok THEN 2 ELSE Len(get_prereqs(cid, aristas)) + 2

\* the submit handler (app.py 765-852)
SubmitOrFail(w, perfil, cid, item, ok, ev, n) ==
    IF n = 0 \/ n > SubmitCalls(cid, ok) THEN SubmitAnswer(w, perfil, cid, item, ok, ev)
    ELSE SubmitFails(w, perfil, cid, ok,
                     IF ok THEN <<>> ELSE get_prereqs(cid, aristas), n)

\* fault variant of Practice: the form is rendered at the gate as well
Practice_Ungated(w, perfil, cid, ev) ==
    IF ev.type = "objetivo_btn" THEN [ResetObjetivo(w) EXCEPT !.rerun = TRUE]
    ELSE IF w.current_item = <<>> THEN _cargar_siguiente_item(w, cid, ev.pick)
    ELSE IF ev.type # "submit" \/ ev.op = "none" THEN w
    ELSE SubmitAnswer(w, perfil, cid, w.current_item[1], ev.op = "ok", ev)

\* Practice of the chosen concept (app.py 699-852).  At the gate there is
\* no question and no form.  An item loaded in this run resets the radio
\* to no selection, so no answer is accepted in the run that loads it.
Practice(w, perfil, cid, ev) ==
    IF ev.type = "objetivo_btn" THEN [ResetObjetivo(w) EXCEPT !.rerun = TRUE]
    ELSE IF w.quiz_state = QUIZ_WAIT_DECISION
    THEN IF ev.type = "submit" THEN [w EXCEPT !.signal = "SessionGated"] ELSE w
    ELSE IF w.current_item = <<>> THEN _cargar_siguiente_item(w, cid, ev.pick)
    ELSE IF ev.type # "submit" \/ ev.op = "none" THEN w
    ELSE SubmitOrFail(w, perfil, cid, w.current_item[1], ev.op = "ok", ev, ev.falla)

\* override_next is consumed and the concept practised (app.py 691-699)
PanelPractice(w, perfil, cid, ev) ==
    IF cid = None THEN [w EXCEPT !.override_next = None, !.concepto_id = None]
    ELSE Practice([w EXCEPT !.override_next = None, !.concepto_id = cid], perfil, cid, ev)

\* target concept: override > tema > recommendation.
\* The target concept of a run (app.py 689-697): cid_match is the concept
\* match_tema gives for tema
ChooseTargetWith(override, tema_, cid_match, idseq, recomendados) ==
    IF override # None THEN override
    ELSE IF tema_ # <<>>
         THEN OrElse(cid_match, FirstOrNone(recomendados))
         ELSE IF recomendados # <<>> THEN recomendados[1] ELSE FirstOrNone(idseq)

ChooseTarget(w, idseq, recomendados) ==
    ChooseTargetWith(w.override_next, w.tema,
                     IF w.tema # <<>> THEN MatchTable[w.ctx[1].mundo, w.ctx[1].grado, w.tema]
                     ELSE None,
                     idseq, recomendados)

\* ids is iterated in the order ev.order
PanelTarget(w, perfil, idseq, ev) ==
    PanelPractice(w, perfil,
                  ChooseTarget(w, idseq, recomendar_ruta(perfil, idseq, aristas, KRuta, ThrRuta)),
                  ev)

\* a topic picked by hand forces the next concept and leaves the gate
\* (app.py 680-687); sb is the selectbox after this run
PanelSync(w, cids, sb) ==
    IF w.tema # sb.value
    THEN [w EXCEPT !.selbox = <<sb>>,
                   !.tema = sb.value,
                   !.override_next = LabelToCid(cids, sb.value),
                   !.current_item = <<>>,
                   !.quiz_state = QUIZ_ACTIVE,
                   !.decision_ctx = <<>>]
    ELSE [w EXCEPT !.selbox = <<sb>>]

\* index of the label of the concept matching tema, else the first label
DefaultIdxIn(nd, labels, cid_match) ==
    IF cid_match # None /\ nd[cid_match].concepto \in Range(labels)
    THEN IndexOf(labels, nd[cid_match].concepto) ELSE 1

DefaultIdx(labels, cid_match) == DefaultIdxIn(nodos, labels, cid_match)

\* the topic selectbox (app.py 660-687)
PanelSelect(w, cids, labels, default_idx, ev) ==
    IF labels = <<>> THEN [w EXCEPT !.selbox = <<>>]
    ELSE PanelSync(w, cids,
                   [labels |-> labels, index |-> default_idx,
                    value |-> SelectboxValue(w.selbox, labels, default_idx, ev)])

PanelTopic(w, cids, ev) ==
    PanelSelect(w, cids, [i \in 1..Len(cids) |-> nodos[cids[i]].concepto],
                DefaultIdx([i \in 1..Len(cids) |-> nodos[cids[i]].concepto],
                           MatchTable[w.ctx[1].mundo, w.ctx[1].grado, w.tema]),
                ev)

\* the right panel of a session with objective: perfil is read once, at
\* the start (app.py 647)
PanelPhase(w, ev) ==
    IF w.ctx = <<>> \/ w.sid = None
    THEN [w EXCEPT !.selbox = <<>>, !.concepto_id = None]
    ELSE PanelTarget(PanelTopic([w EXCEPT !.dominio = ProfileRows(w.dominio, w.ctx[1].grado)],
                                LabelTable[w.ctx[1].mundo, w.ctx[1].grado], ev),
                     get_user_profile(w.dominio, w.ctx[1].grado),
                     FilterSeq(ev.order, filtrar_ids(w.ctx[1].mundo, w.ctx[1].grado)),
                     ev)

\* one run of the script for an event
Script(w, ev) ==
    IF ev.type = "chat" THEN ChatPhase(w, ev.cmd, ev.intent) ELSE PanelPhase(w, ev)


(***************************************************************************)
(* Inputs of the interactions.                                             *)
(***************************************************************************)
\* n of the quiz_len command
QuizLenRequests == {1, 3}

Acciones == {"reintentar", "repasar", "avanzar"}

\* results of interpretar_intencion_usuario
Intents ==
    {[objetivo |-> o, mundo |-> "M", grado |-> g, tema |-> t] :
        o \in {"explorar"}, g \in {"g2"}, t \in InitialTemas}
    \cup {[objetivo |-> None, mundo |-> "M", grado |-> None, tema |-> <<>>]}

NoIntent == [objetivo |-> None, mundo |-> None, grado |-> None, tema |-> <<>>]

NoCmd == [cmd |-> None, n |-> 0, accion |-> None, tema_text |-> <<>>]

\* outcomes of the pyBKT fit/predict: the least and the greatest
\* prediction (raises: the fit or the prediction fails)
PyBktOutcomes == {[raises |-> FALSE, pred |-> Fl(v)] : v \in {0, 100}}

\* payloads of sugerir_siguiente_concepto: None, a JSON value that is not
\* an object, an object whose siguiente_concepto is a string, and one
\* whose siguiente_concepto is an object with id: a concept, an unknown
\* id, or a JSON list
NoSug == [kind |-> "none", id |-> None]

SugPayloads ==
    {NoSug, [kind |-> "list", id |-> None], [kind |-> "dict_sc_str", id |-> None]}
    \cup {[kind |-> "dict_sc", id |-> i] : i \in {"A", "Z", "unhashable"}}

\* iteration orders of Python sets of concept ids
SetOrders == {NodoOrder, [i \in 1..Len(NodoOrder) |-> NodoOrder[Len(NodoOrder) + 1 - i]]}

Ev(type, cmd, intent, label, op, pybkt, sug, order, pick) ==
    [type |-> type, cmd |-> cmd, intent |-> intent, label |-> label, op |-> op,
     pybkt |-> pybkt, sug |-> sug, order |-> order, pick |-> pick,
     \* the database call of the submit handler that raises (0: none)
     falla |-> 0]

\* an event that carries only the draws a run without widget event needs
Plain(type, cmd, intent, label, order, pick) ==
    Ev(type, cmd, intent, label, "none", [raises |-> FALSE, pred |-> Fl(0)], NoSug, order, pick)

(***************************************************************************)
(* One interaction: the run of the script for the event and, when it ends  *)
(* in st.rerun(), the run without event that follows.                      *)
(***************************************************************************)
Rerun(r, ev) ==
    IF r.rerun
    THEN Script([r EXCEPT !.rerun = FALSE], [ev EXCEPT !.type = "none"])
    ELSE r

Outcome(ev) == Rerun(Script(World, ev), ev)

\* the outcomes of an interaction over the draws of random.choice: ev is
\* the event with the first draw, and the other draws are followed when
\* an item was picked among several
OtherDraws(ev, n) == {Outcome([ev EXCEPT !.pick = p]) : p \in 1..(n - 1)}

FirstAndOthers(r0, ev) == {r0} \cup OtherDraws(ev, r0.draws)

Outcomes(ev) == FirstAndOthers(Outcome(ev), ev)

\* what a decision processed at the gate can signal
DecisionSignals == {"Resolved", "NoTargetFound", "TypeError"}

\* last describes the last interaction that changed the state or signalled
\* something: what its handler signalled and, for a decision that was
\* processed at the gate, its action, its topic and its target
Commit(r, cmd) ==
    /\ ctx' = r.ctx
    /\ sid' = r.sid
    /\ quiz_len' = r.quiz_len
    /\ aciertos' = r.aciertos
    /\ override_next' = r.override_next
    /\ quiz_count' = r.quiz_count
    /\ usados_items' = r.usados_items
    /\ tema' = r.tema
    /\ current_item' = r.current_item
    /\ quiz_state' = r.quiz_state
    /\ decision_ctx' = r.decision_ctx
    /\ dominio' = r.dominio
    /\ historial' = r.historial
    /\ sesiones' = r.sesiones
    /\ banco' = r.banco
    /\ selbox' = r.selbox
    /\ concepto_id' = r.concepto_id
    /\ last' = IF r.signal = None /\ r = World THEN last
                ELSE [accion |-> IF r.signal \in DecisionSignals THEN cmd.accion ELSE None,
                      tema_text |-> IF r.signal \in DecisionSignals THEN cmd.tema_text
                                    ELSE <<>>,
                      signal |-> r.signal,
                      resolved |-> r.resolved]
    /\ UNCHANGED <<inp, out, procs>>

\* a chat message while no objective is set

\* the interaction ends in one of its outcomes
CommitAny(rs, cmd) == \E r \in rs : Commit(r, cmd)

StartSession ==
    /\ ctx = <<>>
    /\ \E intent \in Intents :
          CommitAny(Outcomes(Plain("chat", NoCmd, intent, <<>>, NodoOrder, 0)), NoCmd)

\* "me llamo ...", or a message that changes nothing modelled here
\* (difficulty, pause, summary, hints, plain chat)
ChatOtro ==
    \E c \in {"set_nombre", "otro"} :
        /\ c = "otro" => ctx # <<>>
        /\ CommitAny(Outcomes(Plain("chat", [NoCmd EXCEPT !.cmd = c], NoIntent, <<>>,
                                NodoOrder, 0)), NoCmd)

QuizLenCmd ==
    /\ ctx # <<>>
    /\ \E n \in QuizLenRequests :
          CommitAny(Outcomes(Plain("chat", [NoCmd EXCEPT !.cmd = "quiz_len", !.n = n],
                               NoIntent, <<>>, NodoOrder, 0)), NoCmd)

Retomar ==
    /\ ctx # <<>>
    /\ CommitAny(Outcomes(Plain("chat", [NoCmd EXCEPT !.cmd = "retomar"],
                                  NoIntent, <<>>, NodoOrder, 0)), NoCmd)

CambiarTema ==
    /\ ctx # <<>>
    /\ CommitAny(Outcomes(Plain("chat", [NoCmd EXCEPT !.cmd = "cambiar_tema"],
                                  NoIntent, <<>>, NodoOrder, 0)), NoCmd)

\* reintentar / repasar [tema] / avanzar [tema] in the chat
SubmitDecision ==
    /\ ctx # <<>>
    /\ \E a \in Acciones, t \in TemaTexts :
          /\ a = "reintentar" => t = <<>>
          \* away from the gate the command is not looked at
          /\ quiz_state # QUIZ_WAIT_DECISION => (a = "reintentar")
          /\ LET cmd == [NoCmd EXCEPT !.cmd = "decision", !.accion = a, !.tema_text = t]
             IN  CommitAny(Outcomes(Plain("chat", cmd, NoIntent, <<>>, NodoOrder, 0)), cmd)

\* the learner picks another label in the selectbox
SelectTopic ==
    /\ selbox # <<>>
    /\ \E label \in Range(selbox[1].labels) :
          /\ label # selbox[1].value
          /\ CommitAny(Outcomes(Plain("select", NoCmd, NoIntent, label, NodoOrder, 0)), NoCmd)

\* the "Cambiar objetivo" button
CambiarObjetivo ==
    /\ concepto_id # None
    /\ CommitAny(Outcomes(Plain("objetivo_btn", NoCmd, NoIntent, <<>>, NodoOrder, 0)), NoCmd)

\* the "Responder" button of the quiz form; the suggestion and the set
\* order are only consulted by an answer that ends the bout
Responder ==
    /\ concepto_id # None
    \* at most MaxAnswers accepted answers; at the gate none is accepted
    /\ quiz_state = QUIZ_WAIT_DECISION \/ LogSize(historial, NodoOrder) < MaxAnswers
    /\ \E op \in {"none", "ok", "bad"}, pybkt \in PyBktOutcomes,
          sug \in (IF quiz_count + 1 >= quiz_len THEN SugPayloads ELSE {NoSug}),
          order \in (IF quiz_count + 1 >= quiz_len THEN SetOrders ELSE {NodoOrder}) :
          /\ op = "none" => (pybkt.pred = Fl(0) /\ sug = NoSug /\ order = NodoOrder)
          /\ CommitAny(Outcomes(Ev("submit", NoCmd, NoIntent, <<>>, op, pybkt, sug, order, 0)), NoCmd)

Next ==
    \/ StartSession
    \/ ChatOtro
    \/ QuizLenCmd
    \/ Retomar
    \/ CambiarTema
    \/ SubmitDecision
    \/ SelectTopic
    \/ CambiarObjetivo
    \/ Responder

Spec == Init /\ [][Next]_vars

\* most database calls a submit handler makes: the prerequisites of the
\* concept with most of them, log_respuesta and the concept itself
MaxCalls == 4

\* the "Responder" button when a database call of the handler raises
\* (sqlite3.OperationalError); there is no rerun.  Every failed submission
\* of a correct answer adds one to the count of correct answers: the
\* database fails only while that count is not ahead of the answered count.
ResponderFalla ==
    /\ concepto_id # None
    /\ quiz_state = QUIZ_ACTIVE
    /\ LogSize(historial, NodoOrder) < MaxAnswers
    /\ aciertos <= quiz_count
    /\ \E op \in {"ok", "bad"}, n \in 1..MaxCalls :
          CommitAny(Outcomes([Ev("submit", NoCmd, NoIntent, <<>>, op,
                                 [raises |-> FALSE, pred |-> Fl(0)], NoSug, NodoOrder, 0)
                                EXCEPT !.falla = n]), NoCmd)

NextFalla ==
    \/ Next
    \/ ResponderFalla

\* the session with a database that can fail
FailSpec == Init /\ [][NextFalla]_vars

(***************************************************************************)
(* Several processes of the application acting for the same learner on the *)
(* same database.  Each handles one wrong answer: its run reads the        *)
(* profile at the start (app.py 647) and apply_heuristic_propagation then  *)
(* writes every prerequisite from that snapshot, one committed UPDATE per  *)
(* prerequisite.  The steps of the processes interleave.                   *)
(***************************************************************************)
NProcs == 2

Procs == 1..NProcs

\* rows a database can hold: never attempted, and attempted once or twice
\* with a mastery reached by a correct answer and by a propagation
SeededRows ==
    {[prob |-> 0, intentos |-> 0], [prob |-> MaxProb, intentos |-> 1],
     [prob |-> MaxProb - DECAY, intentos |-> 1]}

SeededStores ==
    {[cid \in NodoIds |-> <<IF cid = "A" THEN a ELSE IF cid = "B" THEN b
                            ELSE IF cid = "C" THEN c ELSE [prob |-> 0, intentos |-> 0]>>] :
        a \in SeededRows, b \in SeededRows, c \in SeededRows}

IdleProc == [pc |-> "idle", cid |-> None, perfil |-> <<>>, todo |-> <<>>]

ConcInit ==
    /\ FreshSession
    /\ dominio \in SeededStores
    /\ inp = <<>>
    /\ out = <<>>
    /\ procs = <<[start |-> dominio, of |-> [i \in Procs |-> IdleProc]]>>

nostore == <<ctx, sid, quiz_len, aciertos, override_next, quiz_count, usados_items,
             tema, current_item, quiz_state, decision_ctx, historial, sesiones, banco,
             selbox, concepto_id, last, inp, out>>

\* the run of process i that handles a wrong answer to concept c starts:
\* get_user_profile reads the table
ProcReadPerfil(i, c) ==
    /\ procs[1].of[i].pc = "idle"
    /\ procs' = <<[procs[1] EXCEPT !.of[i] =
                      [pc |-> "propagate", cid |-> c,
                       perfil |-> get_user_profile(dominio, "g2"),
                       todo |-> get_prereqs(c, aristas)]]>>
    /\ dominio' = ProfileRows(dominio, "g2")
    /\ UNCHANGED nostore

\* one turn of the loop of apply_heuristic_propagation in process i
ProcUpdatePrereq(i) ==
    /\ procs[1].of[i].pc = "propagate"
    /\ procs[1].of[i].todo # <<>>
    /\ dominio' = update_user_prob(dominio, Head(procs[1].of[i].todo),
                                   Max2(MinProb,
                                        procs[1].of[i].perfil[Head(procs[1].of[i].todo)] - DECAY))
    /\ procs' = <<[procs[1] EXCEPT !.of[i].todo = Tail(@)]>>
    /\ UNCHANGED nostore

\* the loop of process i is over
ProcDone(i) ==
    /\ procs[1].of[i].pc = "propagate"
    /\ procs[1].of[i].todo = <<>>
    /\ procs' = <<[procs[1] EXCEPT !.of[i].pc = "done"]>>
    /\ UNCHANGED <<nostore, dominio>>

ConcNext ==
    \/ \E i \in Procs, c \in {"C", "D"} : ProcReadPerfil(i, c)
    \/ \E i \in Procs : ProcUpdatePrereq(i)
    \/ \E i \in Procs : ProcDone(i)

ConcSpec == ConcInit /\ [][ConcNext]_vars

(***************************************************************************)
(* The functions of the recommender and of the graph applied on their own: *)
(* the arguments are drawn at the start and one action applies the         *)
(* function to them.  The session stays as constructed.                    *)
(***************************************************************************)
\* largest k passed to recomendar_ruta
MaxK == 3

\* the sequences without repetition over a set of at most three elements
SeqsOf(S) ==
    {s \in UNION {[1..n -> S] : n \in 0..3} :
        \A i, j \in 1..Len(s) : i # j => s[i] # s[j]}

Edge(p, c) == [de |-> p, a |-> c]

\* three concepts and the edge lists drawn from a pool that holds a chain,
\* a shortcut and a back edge
RutaNodes == <<"X", "Y", "Z">>

RutaEdgePool == <<Edge("X", "Y"), Edge("Y", "Z"), Edge("X", "Z"), Edge("Z", "X")>>

RutaInputs ==
    {[fn |-> "recomendar_ruta", order |-> RutaNodes, edges |-> FilterSeq(RutaEdgePool, es),
      perfil |-> pf, ids |-> ids, k |-> k, thr |-> ThrRuta, cid |-> None] :
        es \in SUBSET Range(RutaEdgePool),
        pf \in [Range(RutaNodes) -> {0, ThrRuta - 1, ThrRuta}],
        ids \in SeqsOf(Range(RutaNodes)),
        k \in 0..MaxK}

\* a concept X, a second prerequisite Q and five concepts N1..N5 around X
HubNodes == <<"X", "Q", "N1", "N2", "N3", "N4", "N5">>

HubRim == <<"N1", "N2", "N3", "N4", "N5">>

\* X with five prerequisites; X with two prerequisites, an indirect one
\* (N3) and a successor (N4)
WeakGraphs ==
    { [i \in 1..5 |-> Edge(HubRim[i], "X")],
      <<Edge("N1", "X"), Edge("N2", "X"), Edge("N3", "N2"), Edge("X", "N4")>> }

WeakInputs ==
    {[fn |-> "rule_suggestions", order |-> o, edges |-> g,
      perfil |-> [c \in Range(HubNodes) |-> IF c \in Range(HubRim) THEN pf[c] ELSE ThrReady],
      ids |-> <<>>, k |-> 0, thr |-> ThrWeak, cid |-> "X"] :
        o \in {HubNodes, Reverse(HubNodes)},
        g \in WeakGraphs,
        pf \in [Range(HubRim) -> {ThrWeak - 15, ThrWeak - 1, ThrWeak}]}

\* X with five successors, the first of which has a second prerequisite Q,
\* in both edge orders; X with one successor, an indirect one (N2) and a
\* prerequisite (Q)
AdvanceGraphs ==
    { [i \in 1..6 |-> IF i = 6 THEN Edge("Q", "N1") ELSE Edge("X", HubRim[i])],
      Reverse([i \in 1..6 |-> IF i = 6 THEN Edge("Q", "N1") ELSE Edge("X", HubRim[i])]),
      <<Edge("X", "N1"), Edge("N1", "N2"), Edge("Q", "X")>> }

AdvanceInputs ==
    {[fn |-> "rule_suggestions", order |-> HubNodes, edges |-> g,
      perfil |-> [c \in Range(HubNodes) |->
                    IF c = "X" THEN x ELSE IF c = "Q" THEN q ELSE pf[c]],
      ids |-> <<>>, k |-> 0, thr |-> ThrReady, cid |-> "X"] :
        g \in AdvanceGraphs,
        x \in {ThrReady - 1, ThrReady},
        q \in {ThrReady - 1, ThrReady},
        pf \in [Range(HubRim) -> {10, 20}]}

\* four concepts in every key order, and the edge lists drawn from a pool
\* that holds a chain W -> X -> Y -> Z, shortcuts, a back edge and a loop
DepthNodes == {"W", "X", "Y", "Z"}

DepthEdgePool ==
    <<Edge("W", "X"), Edge("X", "Y"), Edge("Y", "Z"), Edge("W", "Y"), Edge("X", "Z"),
      Edge("W", "Z"), Edge("Y", "X"), Edge("Z", "Z")>>

DepthInputs ==
    {[fn |-> "compute_depths", order |-> o, edges |-> FilterSeq(DepthEdgePool, es),
      perfil |-> [c \in DepthNodes |-> 0], ids |-> <<>>, k |-> 0, thr |-> 0, cid |-> None] :
        o \in {s \in [1..Cardinality(DepthNodes) -> DepthNodes] :
                  \A i, j \in DOMAIN s : i # j => s[i] # s[j]},
        es \in SUBSET Range(DepthEdgePool)}

\* three concepts in every key order, and edge lists that name ids U, V
\* which are not keys of nodos: U before a concept, V before U, a concept
\* before U, next to a chain and a cycle of concepts
DanglingNodes == {"W", "X", "Y"}

DanglingEdgePool ==
    <<Edge("U", "X"), Edge("V", "U"), Edge("X", "U"), Edge("W", "X"), Edge("X", "Y"),
      Edge("Y", "X")>>

DanglingInputs ==
    {[fn |-> "compute_depths_any", order |-> o, edges |-> FilterSeq(DanglingEdgePool, es),
      perfil |-> [c \in DanglingNodes |-> 0], ids |-> <<>>, k |-> 0, thr |-> 0, cid |-> None,
      miss_first |-> mf] :
        o \in {s \in [1..Cardinality(DanglingNodes) -> DanglingNodes] :
                  \A i, j \in DOMAIN s : i # j => s[i] # s[j]},
        es \in SUBSET Range(DanglingEdgePool), mf \in BOOLEAN}

\* longest log of a concept before the answer
MaxHist == 11

\* the log of concept C before the answer: correct answers followed by
\* wrong ones, or wrong ones followed by correct ones
HistoryInputs ==
    {[fn |-> "eventos_bkt", order |-> NodoOrder, edges |-> aristas,
      perfil |-> [c \in NodoIds |-> 0], ids |-> <<>>, k |-> 0, thr |-> 0, cid |-> "C",
      hist |-> [j \in 1..n |-> IF j <= i THEN first ELSE 1 - first], ok |-> ok] :
        n \in 0..MaxHist, i \in 0..MaxHist, first \in {0, 1}, ok \in BOOLEAN}

(***************************************************************************)
(* Inputs of the update step of the submit handler: the mastery of the     *)
(* concept in the run's profile, the earlier answers to it, the answer,    *)
(* and the outcome of the pyBKT library: an exception, a finite            *)
(* prediction or a non-finite one.                                         *)
(***************************************************************************)
LibraryOutcomes ==
    {[raises |-> TRUE, pred |-> Fl(0)]}
        \cup {[raises |-> FALSE, pred |-> Fl(v)] : v \in {-20, 0, 1, 50, 99, 100, 130}}
        \cup {[raises |-> FALSE, pred |-> NonFinite(nf)] : nf \in {"nan", "inf", "-inf"}}

UpdateInputs ==
    {[fn |-> "nueva", order |-> NodoOrder, edges |-> aristas,
      perfil |-> [c \in NodoIds |-> IF c = "C" THEN prev ELSE 0],
      ids |-> <<>>, k |-> 0, thr |-> 0, cid |-> "C",
      hist |-> [j \in 1..n |-> first], ok |-> ok, pybkt |-> lib] :
        prev \in {0, 3, 50, 97, 99}, n \in 0..2, first \in {0, 1}, ok \in BOOLEAN,
        lib \in LibraryOutcomes}

(***************************************************************************)
(* Items with their contents.  An item is its item_id, its concept, its    *)
(* list of options and its correct answer; the text of the question plays  *)
(* no part.                                                                *)
(***************************************************************************)
\* api_motor_gemini._fallback_item: the placeholder item of a concept
_fallback_item(cid) ==
    [item_id |-> "uuid", concepto_id |-> cid,
     opciones |-> <<"Afirmacion 1", "Afirmacion 2", "Afirmacion 3", "Afirmacion 4">>,
     respuesta_correcta |-> "Afirmacion 1"]

\* api_motor_gemini.generar_item_para_concepto.  gen is the generative
\* model: not available (json_model is None), or its parsed reply, <<>>
\* when the call raised or the reply was not JSON.
generar_item_para_concepto(cid, gen) ==
    IF ~gen.available THEN _fallback_item(cid)
    ELSE IF gen.data = <<>> THEN _fallback_item(cid)
    ELSE IF Len(gen.data[1].opciones) # 4 THEN _fallback_item(cid)
    ELSE IF gen.data[1].respuesta_correcta \notin Range(gen.data[1].opciones)
    THEN _fallback_item(cid)
    ELSE [item_id |-> "uuid", concepto_id |-> cid,
          opciones |-> gen.data[1].opciones,
          respuesta_correcta |-> gen.data[1].respuesta_correcta]

\* get_question on the items of the bank file: a random unused item of the
\* concept as it is stored, else a generated one
get_question_item(items, cid, evitar_ids, pick, gen) ==
    LET cand == FilterSeq(items, {it \in Range(items) :
                                     /\ it.concepto_id = cid
                                     /\ it.item_id \notin Range(evitar_ids)})
    IN  IF cand # <<>> THEN cand[1 + (pick % Len(cand))]
        ELSE generar_item_para_concepto(cid, gen)

\* option lists and answers of stored items and of replies of the model
ItemShapes ==
    {[opciones |-> o, respuesta_correcta |-> r] :
        o \in {<<"a", "b", "c", "d">>, <<"a", "b", "c">>, <<"a", "b", "c", "d", "e">>},
        r \in {"a", "z"}}

GeneratorOutcomes ==
    {[available |-> FALSE, data |-> <<>>], [available |-> TRUE, data |-> <<>>]}
        \cup {[available |-> TRUE, data |-> <<d>>] : d \in ItemShapes}

\* the bank file holds up to two items of the concept
StoredItems ==
    {<<>>}
        \cup {<<[item_id |-> "i1", concepto_id |-> "C", opciones |-> d.opciones,
                 respuesta_correcta |-> d.respuesta_correcta]>> : d \in ItemShapes}
        \cup {<<[item_id |-> "i1", concepto_id |-> "C", opciones |-> d.opciones,
                 respuesta_correcta |-> d.respuesta_correcta],
                [item_id |-> "i2", concepto_id |-> "C", opciones |-> e.opciones,
                 respuesta_correcta |-> e.respuesta_correcta]>> :
                    d \in ItemShapes, e \in ItemShapes}

QuestionInputs ==
    {[fn |-> "get_question", order |-> NodoOrder, edges |-> aristas,
      perfil |-> [c \in NodoIds |-> 0], ids |-> <<>>, k |-> 0, thr |-> 0, cid |-> "C",
      items |-> items, evitar_ids |-> ev, pick |-> pick, gen |-> gen] :
        items \in StoredItems, ev \in {<<>>, <<"i1">>, <<"i1", "i2">>}, pick \in {0, 1},
        gen \in GeneratorOutcomes}

(***************************************************************************)
(* Inputs of match_tema: three concepts W, X, Y of one grade, stored in    *)
(* one order or the other, and a topic text of up to MaxWords words.       *)
(***************************************************************************)
MaxWords == 11

\* "a a ... a", n words
Rep(n) == [i \in 1..(2 * n - 1) |-> IF i % 2 = 1 THEN "a" ELSE " "]

TemaNames == {<<"a">>, <<"b">>, <<"A", "-", "b">>, Rep(MaxWords)}

TemaQueries ==
    {Rep(n) : n \in 1..MaxWords}
        \cup {<<"a", " ", "b">>, <<"b", " ", "a">>, <<"B">>, <<"z">>, <<"-">>}

TemaNodos ==
    {[c \in {"W", "X", "Y"} |->
         [concepto |-> nombre[c], anio |-> "g1",
          materia |-> IF c = "Y" THEN "N" ELSE materia[c]]] :
        nombre \in [{"W", "X", "Y"} -> TemaNames], materia \in [{"W", "X"} -> {"M", "N"}]}

TemaInputs ==
    {[fn |-> "match_tema", order |-> order, edges |-> <<>>,
      perfil |-> [c \in {"W", "X", "Y"} |-> 0], ids |-> <<>>, k |-> 0, thr |-> 0,
      cid |-> None, nd |-> nd, mundo |-> mundo, grado |-> "g1", tema |-> q] :
        order \in {<<"W", "X", "Y">>, <<"Y", "X", "W">>}, nd \in TemaNodos,
        mundo \in {"M", None}, q \in TemaQueries}

\* the number of a quiz_len command: the digits the learner typed
LenInputs ==
    {[fn |-> "quiz_len", order |-> NodoOrder, edges |-> aristas,
      perfil |-> [c \in NodoIds |-> 0], ids |-> <<>>, k |-> 0, thr |-> 0, cid |-> None,
      n |-> n] : n \in 0..(MaxQuizLen + 2)}

(***************************************************************************)
(* The topic selector, the target and the question over any concept dict:  *)
(* the runs of the right panel of an ACTIVE session in the middle of a     *)
(* bout.  ps is the part of the session state the runs read and write:     *)
(* tema, override_next, the selectbox, the concept of current_item, and    *)
(* for the run of an accepted answer the concept of the item answered and  *)
(* the concept the answer was logged and written against.                  *)
(***************************************************************************)
MaxRuns == 3

PanelStart(tema_) ==
    [tema |-> tema_, override_next |-> None, selbox |-> <<>>, item |-> <<>>,
     answered |-> <<>>, logged |-> <<>>, runs |-> 0]

\* the selectbox and the sync branch (app.py 660-687)
PanelTopicIn(nd, order, mundo, grado, ps, ev) ==
    LET cids == LabelCidsIn(nd, order, mundo, grado)
        labels == [i \in 1..Len(cids) |-> nd[cids[i]].concepto]
        idx == DefaultIdxIn(nd, labels, match_tema_in(nd, order, mundo, grado, ps.tema))
        sb == [labels |-> labels, index |-> idx,
               value |-> SelectboxValue(ps.selbox, labels, idx, ev)]
    IN  IF labels = <<>> THEN [ps EXCEPT !.selbox = <<>>]
        ELSE IF ps.tema # sb.value
        THEN [ps EXCEPT !.selbox = <<sb>>, !.tema = sb.value,
                        !.override_next = LabelToCidIn(nd, cids, sb.value),
                        !.item = <<>>]
        ELSE [ps EXCEPT !.selbox = <<sb>>]

\* the question of the target concept is loaded, or the submitted answer
\* to the question shown is recorded against the target concept and the
\* bout goes on with that concept (app.py 699-745, 765-845)
PanelPracticeIn(ps, cid, ev) ==
    IF cid = None THEN [ps EXCEPT !.override_next = None]
    ELSE IF ps.item = <<>> THEN [ps EXCEPT !.override_next = None, !.item = <<cid>>]
    ELSE IF ev.type # "submit" THEN [ps EXCEPT !.override_next = None]
    ELSE [ps EXCEPT !.override_next = cid, !.item = <<>>,
                    !.answered = ps.item, !.logged = <<cid>>]

\* one run of the panel (app.py 646-852)
PanelRunIn(nd, order, mundo, grado, ps, ev) ==
    LET p1 == PanelTopicIn(nd, order, mundo, grado,
                           [ps EXCEPT !.answered = <<>>, !.logged = <<>>, !.runs = @ + 1], ev)
        idseq == FilterSeq(order, {c \in DOMAIN nd : InFilterNode(nd[c], mundo, grado)})
        cid == ChooseTargetWith(p1.override_next, p1.tema,
                                match_tema_in(nd, order, mundo, grado, p1.tema), idseq,
                                recomendar_ruta([c \in DOMAIN nd |-> 0], idseq, <<>>,
                                                KRuta, ThrRuta))
    IN  PanelPracticeIn(p1, cid, ev)

\* the learner does nothing, picks a label of the selector, or submits an
\* option
PanelEvents(nd) ==
    {[type |-> t, label |-> <<>>] : t \in {"none", "submit"}}
        \cup {[type |-> "select", label |-> nd[c].concepto] : c \in DOMAIN nd}

\* concepts W, X of subject M and Y of subject N, with short names, no
\* two alike
PanelInputs ==
    {[fn |-> "panel", order |-> order, edges |-> <<>>,
      perfil |-> [c \in {"W", "X", "Y"} |-> 0], ids |-> <<>>, k |-> 0, thr |-> 0,
      cid |-> None, nd |-> nd, mundo |-> "M", grado |-> "g1", tema |-> q] :
        order \in {<<"W", "X", "Y">>, <<"Y", "X", "W">>},
        nd \in {n \in TemaNodos : /\ n["W"].materia = "M" /\ n["X"].materia = "M"
                                  /\ n["Y"].concepto = <<"b">>
                                  /\ Len(n["W"].concepto) <= 3
                                  /\ Len(n["X"].concepto) <= 3
                                  /\ n["W"].concepto # n["X"].concepto},
        q \in {<<>>, <<"b">>}}

(***************************************************************************)
(* The desktop front-end (main_pygame.py): the fields of g the quiz and    *)
(* the decision command read and write, for a session of subject M and     *)
(* grade g2 on the concepts of nodos.  The mastery store is not part of    *)
(* g: the profile a decision reads is whatever get_user_profile returns.   *)
(***************************************************************************)
MaxGameSteps == 8

\* prefs["quiz_len"] of g (main_pygame.py 912)
GameQuizLen == 3

\* g after start_session, on the map; handler and steps are the handler
\* that ran last and the number of handlers run
GameStart ==
    [game_state |-> "MAP", current_cid |-> None, current_item |-> <<>>,
     selected_option |-> FALSE, item_feedback |-> FALSE, item_feedback_timer |-> FALSE,
     quiz_count |-> 0, aciertos |-> 0, usados_items |-> <<>>,
     handler |-> None, steps |-> 0]

\* the frame loads a question when practice has none (main_pygame.py
\* 1005-1009); the item avoids the used ids
GameFrame(g) ==
    IF g.game_state = "PRACTICE" /\ g.current_item = <<>> /\ g.current_cid # None
    THEN [g EXCEPT !.current_item = <<BankItem(g.current_cid, Len(g.usados_items) + 1)>>]
    ELSE g

\* a node of the map, or of the screen after the quiz, is clicked
GameSelectNodo(g, cid) ==
    [g EXCEPT !.current_cid = cid, !.game_state = "PRACTICE", !.current_item = <<>>,
              !.quiz_count = 0, !.aciertos = 0, !.usados_items = <<>>,
              !.item_feedback = FALSE]

\* an option is selected and submitted (main_pygame.py 1147-1178)
GameSubmitAnswer(g, ok) ==
    [g EXCEPT !.selected_option = TRUE,
              !.aciertos = IF ok THEN @ + 1 ELSE @,
              !.item_feedback = TRUE, !.item_feedback_timer = TRUE,
              !.usados_items = Append(@, g.current_item[1].item_id),
              !.quiz_count = @ + 1]

\* the feedback timer runs out (main_pygame.py 1180-1191)
GameFeedbackEnd(g) ==
    IF g.quiz_count >= GameQuizLen
    THEN [g EXCEPT !.item_feedback_timer = FALSE, !.game_state = "POST_QUIZ"]
    ELSE [g EXCEPT !.item_feedback_timer = FALSE, !.current_item = <<>>,
                   !.selected_option = FALSE, !.item_feedback = FALSE]

\* the target of a decision command (main_pygame.py 669-683)
GameTarget(base, rs, accion, tema_cid) ==
    IF accion = "reintentar" /\ base # None THEN base
    ELSE IF accion = "repasar" THEN OrElse(tema_cid, FirstOrNone(rs.weak))
    ELSE IF accion = "avanzar" THEN OrElse(tema_cid, FirstOrNone(rs.advance))
    ELSE None

\* the decision branch of process_chat_message (main_pygame.py 668-694);
\* perfil is the profile read from the store, order the iteration order of
\* the prerequisite set
GameDecision(g, perfil, order, cmd) ==
    LET base == g.current_cid
        rs == IF base # None THEN rule_suggestions(base, perfil, aristas, order)
              ELSE [weak |-> <<>>, advance |-> <<>>]
        tema_cid == IF cmd.tema_text # <<>> THEN MatchTable["M", "g2", cmd.tema_text]
                    ELSE None
        target == GameTarget(base, rs, cmd.accion, tema_cid)
    IN  IF target # None
        THEN [g EXCEPT !.current_cid = target, !.current_item = <<>>, !.quiz_count = 0,
                       !.aciertos = 0, !.usados_items = <<>>, !.game_state = "PRACTICE"]
        ELSE g

\* profiles the store can hold: each prerequisite weak or strong
GameProfiles == [NodoIds -> {10, 70}]

GameInputs ==
    {[fn |-> "game", order |-> NodoOrder, edges |-> aristas,
      perfil |-> [c \in NodoIds |-> 0], ids |-> <<>>, k |-> 0, thr |-> 0, cid |-> None]}

FnInputs ==
    GameInputs \cup DanglingInputs \cup PanelInputs \cup RutaInputs \cup WeakInputs \cup AdvanceInputs \cup DepthInputs \cup HistoryInputs
        \cup UpdateInputs \cup QuestionInputs \cup TemaInputs \cup LenInputs

FnInit ==
    /\ Fresh
    /\ inp \in {<<i>> : i \in FnInputs}
    /\ out = <<>>
    /\ procs = <<>>

CallRecomendarRuta ==
    /\ inp # <<>> /\ inp[1].fn = "recomendar_ruta" /\ out = <<>>
    /\ out' = <<recomendar_ruta(inp[1].perfil, inp[1].ids, inp[1].edges,
                                inp[1].k, inp[1].thr)>>
    /\ UNCHANGED <<svars, inp, procs>>

\* order is the iteration order of the prerequisite set
CallRuleSuggestions ==
    /\ inp # <<>> /\ inp[1].fn = "rule_suggestions" /\ out = <<>>
    /\ out' = <<rule_suggestions(inp[1].cid, inp[1].perfil, inp[1].edges, inp[1].order)>>
    /\ UNCHANGED <<svars, inp, procs>>

\* order is the key order of nodos
CallComputeDepths ==
    /\ inp # <<>> /\ inp[1].fn = "compute_depths" /\ out = <<>>
    /\ out' = <<DepthsOf(inp[1].order, inp[1].edges)>>
    /\ UNCHANGED <<svars, inp, procs>>

\* the answer is logged and the observations are read back (app.py 779-785)
CallEventosBkt ==
    /\ inp # <<>> /\ inp[1].fn = "eventos_bkt" /\ out = <<>>
    /\ out' = <<eventos_bkt(LogRow([c \in NodoIds |-> IF c = inp[1].cid THEN inp[1].hist
                                                      ELSE <<>>],
                                   inp[1].cid, inp[1].ok),
                            inp[1].cid)>>
    /\ UNCHANGED <<svars, inp, procs>>

\* the answer is logged, the observations are read back and the value
\* handed to update_user_prob is computed (app.py 779-798)
CallNueva ==
    /\ inp # <<>> /\ inp[1].fn = "nueva" /\ out = <<>>
    /\ out' = <<ClampProb(bkt_val(inp[1].perfil, inp[1].cid, inp[1].ok,
                                  eventos_bkt(LogRow([c \in NodoIds |->
                                                         IF c = inp[1].cid THEN inp[1].hist
                                                         ELSE <<>>],
                                                     inp[1].cid, inp[1].ok),
                                              inp[1].cid),
                                  inp[1].pybkt))>>
    /\ UNCHANGED <<svars, inp, procs>>

\* compute_depths on edges that may name ids outside nodos; miss_first is
\* the iteration order of the prerequisite sets
CallComputeDepthsAny ==
    /\ inp # <<>> /\ inp[1].fn = "compute_depths_any" /\ out = <<>>
    /\ out' = <<DepthsOfAny(inp[1].order, inp[1].edges, inp[1].miss_first)>>
    /\ UNCHANGED <<svars, inp, procs>>

\* the item get_question hands to the session for display
CallGetQuestion ==
    /\ inp # <<>> /\ inp[1].fn = "get_question" /\ out = <<>>
    /\ out' = <<get_question_item(inp[1].items, inp[1].cid, inp[1].evitar_ids,
                                  inp[1].pick, inp[1].gen)>>
    /\ UNCHANGED <<svars, inp, procs>>

\* order is the key order of nodos
CallMatchTema ==
    /\ inp # <<>> /\ inp[1].fn = "match_tema" /\ out = <<>>
    /\ out' = <<match_tema_in(inp[1].nd, inp[1].order, inp[1].mundo, inp[1].grado,
                              inp[1].tema)>>
    /\ UNCHANGED <<svars, inp, procs>>

\* the value the quiz_len command stores in prefs
CallQuizLen ==
    /\ inp # <<>> /\ inp[1].fn = "quiz_len" /\ out = <<>>
    /\ out' = <<quiz_len_cmd(inp[1].n)>>
    /\ UNCHANGED <<svars, inp, procs>>

\* one more run of the panel of the session
CallPanel ==
    /\ inp # <<>> /\ inp[1].fn = "panel"
    /\ \E ev \in PanelEvents(inp[1].nd) :
           LET ps == IF out = <<>> THEN PanelStart(inp[1].tema) ELSE out[1]
           IN  /\ ps.runs < MaxRuns
               /\ out' = <<PanelRunIn(inp[1].nd, inp[1].order, inp[1].mundo, inp[1].grado,
                                      ps, ev)>>
    /\ UNCHANGED <<svars, inp, procs>>

\* g of the running game, and the step of one handler followed by the
\* frame that is drawn before the next event
GameNow == IF out = <<>> THEN GameStart ELSE out[1]

IsGame == inp # <<>> /\ inp[1].fn = "game"

GameStep(g, handler) ==
    /\ GameNow.steps < MaxGameSteps
    /\ out' = <<GameFrame([g EXCEPT !.handler = handler, !.steps = GameNow.steps + 1])>>
    /\ UNCHANGED <<svars, inp, procs>>

CallGameSelectNodo ==
    /\ IsGame
    /\ GameNow.game_state \in {"MAP", "POST_QUIZ"}
    /\ \E cid \in filtrar_ids("M", "g2") : GameStep(GameSelectNodo(GameNow, cid), "select_nodo")

CallGameSubmitAnswer ==
    /\ IsGame
    /\ GameNow.game_state = "PRACTICE"
    /\ GameNow.current_item # <<>> /\ ~GameNow.item_feedback
    /\ \E ok \in BOOLEAN : GameStep(GameSubmitAnswer(GameNow, ok), "submit_answer")

CallGameFeedbackEnd ==
    /\ IsGame
    /\ GameNow.game_state = "PRACTICE"
    /\ GameNow.item_feedback_timer
    /\ GameStep(GameFeedbackEnd(GameNow), "feedback_end")

\* the chat is open in every screen of the game (main_pygame.py 1083-1101)
CallGameDecision ==
    /\ IsGame
    /\ \E a \in Acciones, t \in TemaTexts, perfil \in GameProfiles, order \in SetOrders :
        /\ a = "reintentar" => t = <<>>
        /\ GameStep(GameDecision(GameNow, perfil, order,
                                 [NoCmd EXCEPT !.cmd = "decision", !.accion = a,
                                               !.tema_text = t]),
                    "decision")

FnNext ==
    \/ CallGameSelectNodo
    \/ CallGameSubmitAnswer
    \/ CallGameFeedbackEnd
    \/ CallGameDecision
    \/ CallComputeDepthsAny
    \/ CallPanel
    \/ CallQuizLen
    \/ CallMatchTema
    \/ CallGetQuestion
    \/ CallRecomendarRuta
    \/ CallRuleSuggestions
    \/ CallComputeDepths
    \/ CallEventosBkt
    \/ CallNueva

FnSpec == FnInit /\ [][FnNext]_vars

(***************************************************************************)
(* Properties of the quiz session.                                         *)
(***************************************************************************)
AtGate == quiz_state = QUIZ_WAIT_DECISION

\* the stored rows of dominio_usuario
Rows == {dominio[cid][1] : cid \in {c \in NodoIds : dominio[c] # <<>>}}

\* the topic match of the decision command just processed
DecisionTemaCid ==
    IF last'.tema_text # <<>>
    THEN MatchTable[ctx[1].mundo, ctx[1].grado, last'.tema_text]
    ELSE None

\* C1: a bout ends after exactly quiz_len accepted answers: as long as the
\* session is ACTIVE, fewer than quiz_len answers of the bout have been
\* accepted, whatever else the learner did in between.
C1_ActiveBelowQuizLen == quiz_state = QUIZ_ACTIVE => quiz_count < quiz_len

\* C2: no step taken at the gate changes the mastery store, the attempt
\* counters, the answer log, the answered and correct counts or the used
\* items; and a submission of the answer form at the gate (it signals
\* SessionGated) leaves the session at the gate.
C2_GateRejectsAnswers ==
    [][AtGate =>
        /\ UNCHANGED <<dominio, historial, quiz_count, aciertos, usados_items>>
        /\ (last'.signal = "SessionGated" => quiz_state' = QUIZ_WAIT_DECISION)]_vars

\* C2 witness: an answer form was submitted at the gate, after a bout of
\* recorded answers
C2_Witness ==
    /\ AtGate
    /\ last.signal = "SessionGated"
    /\ LogSize(historial, NodoOrder) > 0

\* C3: the decision context is populated if and only if the session waits
\* for a decision.
C3_DecisionCtxIffGate == (decision_ctx # <<>>) <=> AtGate

\* C3 witness: the session is ACTIVE again, without decision context, after
\* a decision was resolved at the gate
C3_Witness ==
    /\ quiz_state = QUIZ_ACTIVE
    /\ decision_ctx = <<>>
    /\ last.signal = "Resolved"

C5_UsedItemsCleared ==
    [][(\/ concepto_id' # concepto_id
        \/ quiz_state = QUIZ_ACTIVE /\ quiz_state' = QUIZ_WAIT_DECISION
        \/ AtGate /\ last'.signal = "Resolved"
        \/ ctx # <<>> /\ ctx' = <<>>)
       => usados_items' = <<>>]_vars

\* C6: a reintentar decision processed at the gate resolves to the concept
\* stored in the decision context.
C6_RetryResolvesToBoutConcept ==
    [][(AtGate /\ last'.accion = "reintentar") =>
        /\ last'.signal = "Resolved"
        /\ last'.resolved = decision_ctx[1].concepto_id]_vars

\* C6 witness: a retry was resolved although the stored weak list, advance
\* list and suggestion all name other concepts
C6_Witness ==
    /\ last.accion = "reintentar"
    /\ last.signal = "Resolved"
    /\ last.resolved = "D"
    /\ tema = nodos["D"].concepto

\* C7: a repasar decision processed at the gate resolves to the concept its
\* topic matches, else to the first of the stored weak list, and signals
\* NoTargetFound exactly when there is neither.
C7_ReviewResolution ==
    [][(AtGate /\ last'.accion = "repasar") =>
        LET m == DecisionTemaCid
            weak == decision_ctx[1].weak
        IN  /\ m # None => (last'.signal = "Resolved" /\ last'.resolved = m)
            /\ (m = None /\ weak # <<>>) =>
                    (last'.signal = "Resolved" /\ last'.resolved = weak[1])
            /\ (last'.signal = "NoTargetFound") <=> (m = None /\ weak = <<>>)]_vars

\* C7 witness: a review resolved by its topic
C7_Witness ==
    /\ last.accion = "repasar"
    /\ last.tema_text # <<>>
    /\ last.signal = "Resolved"

\* C8: an avanzar decision processed at the gate resolves to the concept
\* its topic matches, else to the suggestion's id if it is a concept of the
\* graph, else to the first of the stored advance list, and signals
\* NoTargetFound exactly when there is none of them.
C8_AdvanceResolution ==
    [][(AtGate /\ last'.accion = "avanzar") =>
        LET m == DecisionTemaCid
            dc == decision_ctx[1]
            s == SuggId(dc.sug)
            expected == IF m # None THEN m
                        ELSE IF s \in NodoIds THEN s
                        ELSE IF dc.advance # <<>> THEN dc.advance[1] ELSE None
        IN  IF expected = None THEN last'.signal = "NoTargetFound"
            ELSE last'.signal = "Resolved" /\ last'.resolved = expected]_vars

\* C9: a decision that finds no target leaves the session at the gate, with
\* the decision context, the target concept, the counts, the used items and
\* the mastery store as they were.
C9_FailedDecisionChangesNothing ==
    [][(AtGate /\ last'.signal = "NoTargetFound") =>
        /\ quiz_state' = QUIZ_WAIT_DECISION
        /\ UNCHANGED <<decision_ctx, concepto_id, quiz_count, aciertos,
                       usados_items, dominio>>]_vars

\* C9 witness: a decision found no target
C9_Witness ==
    /\ AtGate
    /\ last.signal = "NoTargetFound"
    /\ decision_ctx # <<>>

\* C10: after a decision resolved at the gate the target concept is the
\* resolved concept, both counts are 0, the used items are empty, the
\* decision context is cleared and the session is ACTIVE.
C10_ResolvedDecisionState ==
    last.signal = "Resolved" =>
        /\ concepto_id = last.resolved
        /\ quiz_count = 0
        /\ aciertos = 0
        /\ usados_items = <<>>
        /\ decision_ctx = <<>>
        /\ quiz_state = QUIZ_ACTIVE

(***************************************************************************)
(* Properties of the recommender functions.                                *)
(***************************************************************************)
\* p is a direct prerequisite of c
IsPrereq(edges, p, c) == \E i \in 1..Len(edges) : edges[i].de = p /\ edges[i].a = c

\* every direct prerequisite of c has mastery at or above thr
ReadyAt(edges, perfil, c, thr) ==
    \A p \in DOMAIN perfil : IsPrereq(edges, p, c) => perfil[p] >= thr

Returned(fn) == inp # <<>> /\ inp[1].fn = fn /\ out # <<>>

\* C11: recomendar_ruta returns only concepts of the candidate set, and
\* none that has a prerequisite whose mastery is below the threshold.
C11_RouteOnlyReadyCandidates ==
    Returned("recomendar_ruta") =>
        \A i \in 1..Len(out[1]) :
            /\ out[1][i] \in Range(inp[1].ids)
            /\ ReadyAt(inp[1].edges, inp[1].perfil, out[1][i], inp[1].thr)

\* a candidate with a prerequisite below the threshold was left out while
\* another was returned, with room left in k
C11_Witness ==
    /\ Returned("recomendar_ruta")
    /\ out[1] # <<>>
    /\ Len(out[1]) < inp[1].k
    /\ \E c \in Range(inp[1].ids) :
          /\ c \notin Range(out[1])
          /\ ~ReadyAt(inp[1].edges, inp[1].perfil, c, inp[1].thr)

\* C12: recomendar_ruta returns the ready candidates in ascending order of
\* their own mastery, cut to the first k: no concept twice, min(k, number
\* of ready candidates) elements, and no ready candidate left out has a
\* strictly lower mastery than a returned one.
C12_RouteWeakestReadyFirst ==
    Returned("recomendar_ruta") =>
        LET res == out[1]
            pf == inp[1].perfil
            ready == {c \in Range(inp[1].ids) :
                         ReadyAt(inp[1].edges, pf, c, inp[1].thr)}
        IN  /\ Range(res) \subseteq ready
            /\ \A i, j \in 1..Len(res) : i < j => res[i] # res[j] /\ pf[res[i]] <= pf[res[j]]
            /\ Len(res) = Min2(inp[1].k, Cardinality(ready))
            /\ \A r \in ready \ Range(res) : \A c \in Range(res) : pf[r] >= pf[c]

\* k cuts the list: a ready candidate of strictly higher mastery than
\* every returned one is left out, and the returned ones differ in mastery
C12_Witness ==
    /\ Returned("recomendar_ruta")
    /\ Len(out[1]) = 2
    /\ inp[1].perfil[out[1][1]] < inp[1].perfil[out[1][2]]
    /\ \E r \in Range(inp[1].ids) \ Range(out[1]) :
          /\ ReadyAt(inp[1].edges, inp[1].perfil, r, inp[1].thr)
          /\ inp[1].perfil[r] > inp[1].perfil[out[1][2]]

\* C13: the weak list of rule_suggestions holds only direct prerequisites
\* of the concept with mastery below 0.45, in ascending order of mastery,
\* at most 4 of them, and no weak prerequisite left out is strictly weaker
\* than a returned one.
C13_WeakPrereqsWeakestFirst ==
    Returned("rule_suggestions") =>
        LET res == out[1].weak
            pf == inp[1].perfil
            weak == {p \in DOMAIN pf : IsPrereq(inp[1].edges, p, inp[1].cid) /\ pf[p] < ThrWeak}
        IN  /\ Range(res) \subseteq weak
            /\ \A i, j \in 1..Len(res) : i < j => pf[res[i]] <= pf[res[j]]
            /\ Len(res) <= MaxN
            /\ \A w \in weak \ Range(res) : \A c \in Range(res) : pf[w] >= pf[c]

\* five weak prerequisites of two different masteries: four are returned
\* and the one left out is strictly less weak than the first returned
C13_Witness ==
    /\ Returned("rule_suggestions")
    /\ Len(out[1].weak) = MaxN
    /\ inp[1].perfil[out[1].weak[1]] < inp[1].perfil[out[1].weak[MaxN]]
    /\ \E w \in DOMAIN inp[1].perfil \ Range(out[1].weak) :
          /\ IsPrereq(inp[1].edges, w, inp[1].cid)
          /\ inp[1].perfil[w] < ThrWeak
          /\ inp[1].perfil[w] > inp[1].perfil[out[1].weak[1]]

\* C14: the advance list of rule_suggestions holds only direct successors
\* of the concept all of whose prerequisites have mastery at or above
\* 0.65, in descending order of the successor's mastery, at most 4; and
\* with the mastery of any one prerequisite of a returned successor lowered
\* below 0.65 that successor is not returned.
C14_AdvanceReadySuccessors ==
    Returned("rule_suggestions") =>
        LET res == out[1].advance
            pf == inp[1].perfil
            es == inp[1].edges
        IN  /\ \A i \in 1..Len(res) :
                  /\ IsPrereq(es, inp[1].cid, res[i])
                  /\ ReadyAt(es, pf, res[i], ThrReady)
                  /\ \A y \in DOMAIN pf :
                        IsPrereq(es, y, res[i]) =>
                            res[i] \notin Range(AdvanceReady(inp[1].cid,
                                                             [pf EXCEPT ![y] = ThrReady - 15],
                                                             es))
            /\ \A i, j \in 1..Len(res) : i < j => pf[res[i]] >= pf[res[j]]
            /\ Len(res) <= MaxN

\* five ready successors of two different masteries, one of them with a
\* second prerequisite: four are returned, the one with two prerequisites
\* among them
C14_Witness ==
    /\ Returned("rule_suggestions")
    /\ Len(out[1].advance) = MaxN
    /\ inp[1].perfil[out[1].advance[1]] > inp[1].perfil[out[1].advance[MaxN]]
    /\ \E s \in Range(out[1].advance) : IsPrereq(inp[1].edges, "Q", s)
    /\ Cardinality({s \in DOMAIN inp[1].perfil :
                       /\ IsPrereq(inp[1].edges, inp[1].cid, s)
                       /\ ReadyAt(inp[1].edges, inp[1].perfil, s, ThrReady)}) > MaxN

(***************************************************************************)
(* Properties of the answer handler.                                       *)
(***************************************************************************)
\* the step logs an answer to concept c
Answered(c) == historial'[c] # historial[c]

RECURSIVE PathWithin(_, _, _, _)
PathWithin(edges, a, b, n) ==
    /\ n > 0
    /\ \/ IsPrereq(edges, a, b)
       \/ \E i \in 1..Len(edges) : edges[i].de = a /\ PathWithin(edges, edges[i].a, b, n - 1)

Path(edges, a, b) == PathWithin(edges, a, b, Len(edges))

Nodes(i) == Range(i.order)

OnCycle(i, c) == Path(i.edges, c, c)

\* on a cycle or downstream of one
Underivable(i, c) == \E x \in Nodes(i) : OnCycle(i, x) /\ (x = c \/ Path(i.edges, x, c))

\* d[c] is one more than the largest depth of a prerequisite of c, 0 when
\* c has none
DepthRule(i, d, c) ==
    LET ps == {p \in Nodes(i) : IsPrereq(i.edges, p, c)}
    IN  IF ps = {} THEN d[c] = 0
        ELSE \E p \in ps : d[c] = d[p] + 1 /\ \A q \in ps : d[q] <= d[p]

\* C16: on a graph without cycle compute_depths gives 0 to every concept
\* without prerequisites and 1 + max(depth of its prerequisites) to every
\* other one, in whatever order the nodes are visited; for the chain
\* W -> X -> Y the depths are 0, 1, 2.
C16_DepthOfAcyclicGraph ==
    Returned("compute_depths") =>
        /\ (\A c \in Nodes(inp[1]) : ~OnCycle(inp[1], c)) =>
                \A c \in Nodes(inp[1]) : DepthRule(inp[1], out[1], c)
        /\ inp[1].edges = <<Edge("W", "X"), Edge("X", "Y")>> =>
                out[1]["W"] = 0 /\ out[1]["X"] = 1 /\ out[1]["Y"] = 2

\* a graph without cycle where a shortcut joins the chain: the depth is the
\* longest way down, 3 at the end of the chain, and the key order starts
\* at the deepest concept
C16_Witness ==
    /\ Returned("compute_depths")
    /\ \A c \in Nodes(inp[1]) : ~OnCycle(inp[1], c)
    /\ IsPrereq(inp[1].edges, "W", "Z")
    /\ out[1]["Z"] = 3
    /\ inp[1].order[1] = "Z"

\* C17: compute_depths returns on every graph, with or without cycles:
\* its while loop makes at most one pass per concept and one more; and
\* then every concept on or downstream of a cycle has depth 2 and every
\* other concept has its derived depth.
C17_DepthTerminatesWithDefault ==
    Returned("compute_depths") =>
        /\ DepthPasses(inp[1].edges,
                       [c \in Nodes(inp[1]) |->
                           IF \E p \in Nodes(inp[1]) : IsPrereq(inp[1].edges, p, c)
                           THEN -1 ELSE 0],
                       inp[1].order, FALSE) <= Cardinality(Nodes(inp[1])) + 1
        /\ \A c \in Nodes(inp[1]) :
              IF Underivable(inp[1], c) THEN out[1][c] = 2
              ELSE DepthRule(inp[1], out[1], c)

\* a cycle X <-> Y with Z downstream of it and the root W: 2, 2, 2 and 0
C17_Witness ==
    /\ Returned("compute_depths")
    /\ OnCycle(inp[1], "X") /\ ~OnCycle(inp[1], "Z") /\ Underivable(inp[1], "Z")
    /\ ~Underivable(inp[1], "W")
    /\ out[1]["X"] = 2 /\ out[1]["Z"] = 2 /\ out[1]["W"] = 0

\* C18: a step in which a database call of the submit handler raises
\* leaves the answered and correct counts, the used items, the current
\* item and the quiz state as they were, and the mastery table and the
\* answer log as well.
C18_FailedSubmitChangesNothing ==
    [][last'.signal = "PersistenceError" =>
          UNCHANGED <<quiz_count, aciertos, usados_items, current_item, quiz_state,
                      dominio, historial>>]_vars

(***************************************************************************)
(* Properties of processes sharing the store.                              *)
(***************************************************************************)
\* m lowered k times by the propagation
RECURSIVE DecayN(_, _)
DecayN(m, k) == IF k = 0 THEN m ELSE DecayN(Max2(MinProb, m - DECAY), k - 1)

\* the processes that have propagated a wrong answer to a dependent of p
DecaysOf(p) ==
    {i \in Procs : procs[1].of[i].pc = "done" /\ IsPrereq(aristas, p, procs[1].of[i].cid)}

\* C19: no mastery update is lost when processes interleave: once every
\* process has propagated its wrong answer, each prerequisite has been
\* lowered once for every process that failed a dependent of it.
C19_NoLostUpdate ==
    (procs # <<>> /\ \A i \in Procs : procs[1].of[i].pc = "done") =>
        \A p \in NodoIds :
            dominio[p][1].prob = DecayN(procs[1].start[p][1].prob, Cardinality(DecaysOf(p)))

(***************************************************************************)
(* Properties of the observations handed to the BKT update.                *)
(***************************************************************************)
\* C20: the observations handed to obtener_nueva_probabilidad after an
\* accepted answer are the whole log of the learner and concept, oldest
\* first, ending with the answer just given.
C20_FullHistoryOldestFirst ==
    Returned("eventos_bkt") =>
        out[1] = Append(inp[1].hist, IF inp[1].ok THEN 1 ELSE 0)

(***************************************************************************)
(* The update step of an answer.                                           *)
(***************************************************************************)
\* the library gave no usable value: it raised, or predicted a non-finite one
BktUndefined == inp[1].pybkt.raises \/ inp[1].pybkt.pred.nf # ""

\* previous_probability + 0.05 or - 0.05, clamped
Increment == ClampProb(Fl(inp[1].perfil[inp[1].cid] + (IF inp[1].ok THEN 5 ELSE -5)))

\* C21: when the BKT computation is undefined or unavailable (the update
\* mechanism raises, or the result is not finite), the mastery written is
\* the previous probability plus 0.05 after a correct answer, minus 0.05
\* after an incorrect one, clamped to [0.01, 0.99].
C21_FallbackIsIncrement ==
    (Returned("nueva") /\ BktUndefined) => out[1] = Increment

\* C22: for every sequence of observations and every outcome of the
\* library, the mastery handed to the store by the update step of an answer
\* lies in [0.01, 0.99].
C22_WrittenMasteryInRange ==
    Returned("nueva") => (MinProb <= out[1] /\ out[1] <= MaxProb)

\* a prediction above 1 was cut to 0.99, and one below 0 raised to 0.01
C22_Witness ==
    /\ Returned("nueva")
    /\ ~inp[1].pybkt.raises
    /\ inp[1].pybkt.pred = Fl(130)
    /\ out[1] = MaxProb

(***************************************************************************)
(* The items presented.                                                    *)
(***************************************************************************)
WellFormed(it) == Len(it.opciones) = 4 /\ it.respuesta_correcta \in Range(it.opciones)

\* C24: every item handed to the learner has exactly 4 options and a correct
\* answer among them, whether it comes from the item bank or from the
\* generator: a malformed one is replaced by the placeholder item.
C24_PresentedItemWellFormed ==
    Returned("get_question") => WellFormed(out[1])

(***************************************************************************)
(* Topic matching.                                                         *)
(***************************************************************************)
\* the candidates of the call: the concepts inside the filter
Candidatos == {c \in DOMAIN inp[1].nd : InFilterNode(inp[1].nd[c], inp[1].mundo, inp[1].grado)}

\* the normalised name of c contains the whole normalised topic
Whole(c) ==
    /\ _norm_txt(inp[1].tema) # <<>>
    /\ IsSubstring(_norm_txt(inp[1].tema), _norm_txt(inp[1].nd[c].concepto))

\* the number of words of the topic found in the name of c
Hits(c) == CountHits(SplitWords(_norm_txt(inp[1].tema), <<>>), _norm_txt(inp[1].nd[c].concepto))

\* C25 as stated: when a candidate's name contains the whole topic, the
\* chosen concept is such a candidate, never one that matches on words
\* only, for every topic and candidate set; and the chosen concept is
\* inside the subject/grade filter.
C25_WholeMatchAlwaysChosen ==
    Returned("match_tema") =>
        /\ out[1] # None => out[1] \in Candidatos
        /\ (\E c \in Candidatos : Whole(c)) => (out[1] # None /\ Whole(out[1]))

\* C25, amended: a word-only match scores 1.0 + 0.1 x hits, which is below
\* 2.0 only for fewer than 10 hits.  When a candidate's name contains the
\* whole topic, the chosen concept is such a candidate or one that matches
\* 10 or more words of the topic; the chosen concept is inside the filter.
C25_WholeMatchBeatsFewWords ==
    Returned("match_tema") =>
        /\ out[1] # None => out[1] \in Candidatos
        /\ (\E c \in Candidatos : Whole(c)) =>
               (out[1] # None /\ (Whole(out[1]) \/ Hits(out[1]) >= 10))

\* X contains the whole topic and is chosen although W, which matches on
\* one word only, comes first; Y matches too but is outside the filter
C25_Witness ==
    /\ Returned("match_tema")
    /\ inp[1].order = <<"W", "X", "Y">>
    /\ {"W", "X"} \subseteq Candidatos
    /\ ~Whole("W") /\ Hits("W") = 1
    /\ Whole("X") /\ Whole("Y")
    /\ out[1] = "X"

\* every key order of the dict
KeyOrders(nd) ==
    {o \in [1..Cardinality(DOMAIN nd) -> DOMAIN nd] : \A i, j \in DOMAIN o : o[i] = o[j] => i = j}

\* C26: topic matching is deterministic under ties: the concepts, the
\* filter and the topic determine the chosen concept, whatever the order in
\* which the concepts are stored and iterated.
C26_MatchIndependentOfOrder ==
    Returned("match_tema") =>
        \A o \in KeyOrders(inp[1].nd) :
            match_tema_in(inp[1].nd, o, inp[1].mundo, inp[1].grado, inp[1].tema) = out[1]

(***************************************************************************)
(* The bout length.                                                        *)
(***************************************************************************)
\* C27: the configured bout length is an integer in [3, 30]: the default
\* is, and so is the value the quiz_len command stores, whatever number the
\* learner asks for.
C27_QuizLenInRange ==
    /\ quiz_len \in MinQuizLen..MaxQuizLen
    /\ Returned("quiz_len") => out[1] \in MinQuizLen..MaxQuizLen

\* a request above the ceiling was cut to it
C27_Witness ==
    /\ Returned("quiz_len")
    /\ inp[1].n = MaxQuizLen + 1
    /\ out[1] = MaxQuizLen

(***************************************************************************)
(* No stuck state.                                                         *)
(***************************************************************************)
\* an outcome of submitting an option of the question shown
AnswerOutcome ==
    Outcome(Ev("submit", NoCmd, NoIntent, <<>>, "ok", [raises |-> FALSE, pred |-> Fl(100)],
                NoSug, NodoOrder, 0))

\* the outcomes of the decision command "reintentar"
RetryOutcomes ==
    Outcomes(Plain("chat", [NoCmd EXCEPT !.cmd = "decision", !.accion = "reintentar"],
                   NoIntent, <<>>, NodoOrder, 0))

\* C28: no stuck state.  In every ACTIVE state of a session with a target
\* concept a submitted answer is accepted, and in every WAIT_DECISION state
\* the decision "reintentar" is taken and leads to ACTIVE.
C28_NoStuckState ==
    /\ (quiz_state = QUIZ_ACTIVE /\ concepto_id # None) =>
           AnswerOutcome.signal = "Accepted"
    /\ quiz_state = QUIZ_WAIT_DECISION =>
           (ctx # <<>> /\ \A r \in RetryOutcomes : r.quiz_state = QUIZ_ACTIVE)

\* "reintentar" was taken at the gate: the session is ACTIVE on the first
\* question of a new bout and an answer to it is accepted
C28_Witness ==
    /\ last.signal = "Resolved" /\ last.accion = "reintentar"
    /\ quiz_state = QUIZ_ACTIVE /\ quiz_count = 0 /\ current_item # <<>>
    /\ AnswerOutcome.signal = "Accepted" /\ AnswerOutcome.quiz_count = 1

(***************************************************************************)
(* Leaving the decision gate.                                              *)
(***************************************************************************)
\* the objective was reset: the session's context is gone
ExternalReset == ctx' = <<>>

\* C29: the only step that takes the session from WAIT_DECISION to ACTIVE
\* is a decision that resolved a target; no other action of the learner
\* (picking a topic in the selector in particular) leaves the gate.  The
\* reset of the objective ends the session and is not a step of it.
C29_OnlyDecisionLeavesGate ==
    [][(quiz_state = QUIZ_WAIT_DECISION /\ quiz_state' = QUIZ_ACTIVE /\ ~ExternalReset)
          => (last'.signal = "Resolved" /\ last'.accion \in Acciones)]_vars

(***************************************************************************)
(* The concept answers are recorded against.                               *)
(***************************************************************************)
\* the answer submitted next is accepted and recorded against concept c
\* alone
RecordedAgainst(c) ==
    /\ AnswerOutcome.signal = "Accepted"
    /\ \A d \in NodoIds : (AnswerOutcome.historial[d] # historial[d]) <=> d = c

\* C30: after a decision that resolved to concept T, the answers accepted
\* until the next gate or topic change are recorded against T, also when T
\* is outside the subject/grade filter: the answer submitted after the
\* decision is recorded against T, and an answer submitted after another
\* one of the bout against the same concept as that one.
C30_AnswersRecordedAgainstTarget ==
    /\ last.signal = "Resolved" => RecordedAgainst(last.resolved)
    /\ (last.signal = "Accepted" /\ quiz_state = QUIZ_ACTIVE) => RecordedAgainst(concepto_id)

(***************************************************************************)
(* The concept of the answer and the concept of the question.              *)
(***************************************************************************)
\* C31: the concept an accepted answer is logged and written against is
\* the concept of the question that was shown and answered, although the
\* target concept is computed again in every run while the question stays.
C31_AnswerConceptIsItemConcept ==
    (Returned("panel") /\ out[1].logged # <<>>) => out[1].logged = out[1].answered

\* a question of the concept picked in the selector is answered
C31_Witness ==
    /\ Returned("panel")
    /\ out[1].logged # <<>>
    /\ out[1].logged = out[1].answered
    /\ inp[1].nd[out[1].logged[1]].concepto = out[1].tema

(***************************************************************************)
(* The lists of the decision context.                                      *)
(***************************************************************************)
\* the final answer of a bout has just been recorded
BoutJustEnded == last.signal = "Accepted" /\ AtGate /\ decision_ctx # <<>>

\* the profile as get_user_profile reads it from the store now
StoredProfile == get_user_profile(dominio, ctx[1].grado)

\* C32: the weak-prerequisite and advance-ready lists stored in the
\* decision context at the end of a bout are the lists computed from the
\* mastery values of the store after the propagation and the mastery
\* update of the final answer.
C32_ListsFromStoreAfterFinalAnswer ==
    BoutJustEnded =>
        /\ decision_ctx[1].advance =
               AdvanceReady(decision_ctx[1].concepto_id, StoredProfile, aristas)
        /\ \E order \in SetOrders :
               decision_ctx[1].weak =
                   WeakPrereqs(decision_ctx[1].concepto_id, StoredProfile, aristas, order)

(***************************************************************************)
(* The used items of a bout.                                               *)
(***************************************************************************)
\* C33: within one bout no item id is presented twice.  The question
\* shown in an ACTIVE session has an id outside the used-item list, and
\* the list, to which the id of every answered item is appended, holds no
\* id twice.
C33_NoItemPresentedTwice ==
    /\ (quiz_state = QUIZ_ACTIVE /\ current_item # <<>>)
           => current_item[1].item_id \notin Range(usados_items)
    /\ \A i, j \in 1..Len(usados_items) : usados_items[i] = usados_items[j] => i = j

(***************************************************************************)
(* What an accepted answer writes.                                         *)
(***************************************************************************)
\* the last answer logged for concept c was wrong
LastWrong(h, c) == h[c] # <<>> /\ h[c][Len(h[c])] = 0

Intentos(d, c) == IF d[c] = <<>> THEN 0 ELSE d[c][1].intentos

\* C35: for every concept the stored attempts counter equals the number
\* of answers logged for it.  Every step appends at most one answer, an
\* accepted answer appends exactly one and increments the counter of its
\* concept by one, and no other step changes either.
C35_AttemptsMatchLog ==
    [][/\ \A c \in NodoIds :
            /\ Intentos(dominio, c) = Len(historial[c])
            /\ Intentos(dominio', c) = Len(historial'[c])
            /\ Len(historial'[c]) \in {Len(historial[c]), Len(historial[c]) + 1}
            /\ Len(historial[c]) = Len(historial'[c]) => historial'[c] = historial[c]
       /\ LogSize(historial', NodoOrder) <= LogSize(historial, NodoOrder) + 1
       /\ last'.signal = "Accepted"
             => LogSize(historial', NodoOrder) = LogSize(historial, NodoOrder) + 1
       /\ LogSize(historial', NodoOrder) # LogSize(historial, NodoOrder)
             => last'.signal \in {"Accepted", "AttributeError"}]_vars

\* a second answer on a concept has been accepted and counted
C35_Witness ==
    /\ last.signal = "Accepted"
    /\ \E c \in NodoIds : Len(historial[c]) = 2 /\ Intentos(dominio, c) = 2

(***************************************************************************)
(* The counters of the bout.                                               *)
(***************************************************************************)
\* the correct answers of the bout are among its answers
CorrectWithinAnswered == 0 <= aciertos /\ aciertos <= quiz_count

\* at the gate the counters and the used items of the bout are reset
GateIsReset == AtGate => (quiz_count = 0 /\ aciertos = 0 /\ usados_items = <<>>)

\* C36: in every reachable state 0 <= aciertos <= quiz_count; quiz_count
\* is strictly below quiz_len whenever the session is ACTIVE; and at the
\* gate quiz_count and aciertos are 0 and the used-item list is empty.
C36_CounterInvariants ==
    /\ CorrectWithinAnswered
    /\ quiz_state = QUIZ_ACTIVE => quiz_count < quiz_len
    /\ GateIsReset

(***************************************************************************)
(* Depths when an edge names an id that is not a concept.                  *)
(***************************************************************************)
\* a prerequisite of concept c that is not a key of nodos
UnknownPrereq(i, c) == \E p \in EdgeIds(i.edges) \ Range(i.order) : IsPrereq(i.edges, p, c)

\* C37: compute_depths returns a depth for every concept without failing
\* on every edge list, edges whose prerequisite end is not a loaded concept
\* included, and a concept with such a prerequisite is left at the default
\* depth 2.
C37_DepthsWithUnknownPrereq ==
    Returned("compute_depths_any") =>
        /\ ~DepthRaised(out[1])
        /\ \A c \in Range(inp[1].order) :
              /\ out[1][c] >= 0
              /\ UnknownPrereq(inp[1], c) => out[1][c] = 2

(***************************************************************************)
(* The decision gate of the desktop front-end.                             *)
(***************************************************************************)
\* the fields of g that make the bout and its target
GameBout(g) ==
    <<g.game_state, g.current_cid, g.current_item, g.quiz_count, g.aciertos, g.usados_items>>

\* a decision command has just been processed by the game
GameDecided == IsGame /\ out' # out /\ out'[1].handler = "decision"

\* C38: the desktop front-end implements the decision gate of app.py: a
\* chat decision command (reintentar / repasar / avanzar) changes the
\* target concept and resets the bout only when a finished bout awaits a
\* decision (POST_QUIZ), and changes nothing of the bout while the bout is
\* in progress (PRACTICE).
C38_GameDecisionGate ==
    [][GameDecided =>
          /\ GameNow.game_state = "PRACTICE" => GameBout(out'[1]) = GameBout(GameNow)
          /\ GameBout(out'[1]) # GameBout(GameNow) => GameNow.game_state = "POST_QUIZ"]_vars

====
